---- MODULE Spec2Model ----
(***************************************************************************)
(* The organization-scoped store (MemStorage) and the HTTP routes that     *)
(* drive it: groups, targets, SMTP profiles, email templates, landing      *)
(* pages, campaigns, campaign results, and the CSV import of targets.      *)
(*                                                                         *)
(* mem is the MemStorage object: one field per Map plus currentId.  A Map  *)
(* is a function from the keys it holds to the stored rows; ids are handed *)
(* out in increasing order and a key keeps its place when it is set again, *)
(* so the Map's iteration order is the ascending order of its keys.        *)
(***************************************************************************)
EXTENDS Integers, Sequences, FiniteSets, TLC

VARIABLES
    mem,     \* the MemStorage instance
    now,     \* the clock read by new Date()
    origin,  \* history: id |-> the organizationId the row was created under
    made,    \* history: the number of rows created (in the timed system: of
             \* calls made) since the initial state
    parsed,  \* the parsed CSV row at hand in the import of one row
    db,      \* the tables behind the DatabaseStorage instance
    running  \* the requests whose handlers run side by side: for each, the
             \* call it awaits (pc), what the call yields (got) and its locals

vars == <<mem, now, origin, made, parsed, db, running>>

\* ---------------------------------------------------------------- bounds

\* most rows created after the initial state
MaxMade == 1
\* longest list of parsed CSV data rows in one import
MaxRows == 2
\* last value of the clock, in milliseconds
MaxNow == 2

\* ---------------------------------------------------------------- values

\* the result of Map.get on a missing key, of find() without a match
Undefined == [undefined |-> TRUE]
\* a body field that is not supplied
Missing == "undefined"
Null == "null"

\* String.prototype.toLowerCase, a string being the sequence of its characters
UpperCase ==
    <<"A", "B", "C", "D", "E", "F", "G", "H", "I", "J", "K", "L", "M",
      "N", "O", "P", "Q", "R", "S", "T", "U", "V", "W", "X", "Y", "Z">>

LowerCase ==
    <<"a", "b", "c", "d", "e", "f", "g", "h", "i", "j", "k", "l", "m",
      "n", "o", "p", "q", "r", "s", "t", "u", "v", "w", "x", "y", "z">>

LowerOf == [c \in {UpperCase[i] : i \in DOMAIN UpperCase} |->
                LowerCase[CHOOSE i \in DOMAIN UpperCase : UpperCase[i] = c]]

LowerChar(c) == IF c \in DOMAIN LowerOf THEN LowerOf[c] ELSE c

toLowerCase(key) == [i \in DOMAIN key |-> LowerChar(key[i])]

\* ---------------------------------------------------------------- Map

Put(m, k, v) == [x \in (DOMAIN m) \cup {k} |-> IF x = k THEN v ELSE m[x]]

Remove(m, k) == [x \in (DOMAIN m) \ {k} |-> m[x]]

Get(m, k) == IF k \in DOMAIN m THEN m[k] ELSE Undefined

EmptyMap == [x \in {} |-> Undefined]

RECURSIVE KeysAsc(_)
KeysAsc(S) ==
    IF S = {} THEN << >>
    ELSE LET k == CHOOSE x \in S : \A y \in S : x <= y
         IN  <<k>> \o KeysAsc(S \ {k})

\* Array.from(map.values())
Values(m) ==
    LET ks == KeysAsc(DOMAIN m)
    IN  [i \in 1..Len(ks) |-> m[ks[i]]]

\* obj.f, for an object that carries only the fields it was given
Field(obj, f) == IF f \in DOMAIN obj THEN obj[f] ELSE Missing

\* a || null
OrNull(a) == IF a = Missing \/ a = Null \/ a = "" THEN Null ELSE a

\* a || false, for a boolean field
OrFalse(obj, f) == IF f \in DOMAIN obj THEN obj[f] ELSE FALSE

\* ---------------------------------------------------------------- MemStorage

\* {...row, ...data, updatedAt: new Date()}: data is a record of the fields
\* it carries
Merge(row, data, t) ==
    [f \in DOMAIN row |->
        IF f = "updatedAt" THEN t
        ELSE IF f \in DOMAIN data THEN data[f] ELSE row[f]]

Constructed ==
    [ users |-> EmptyMap, organizations |-> EmptyMap, groups |-> EmptyMap,
      targets |-> EmptyMap, smtpProfiles |-> EmptyMap,
      emailTemplates |-> EmptyMap, landingPages |-> EmptyMap,
      campaigns |-> EmptyMap, campaignResults |-> EmptyMap,
      currentId |-> 1 ]

\* --- users and organizations

getUser(s, id) == Get(s.users, id)

createUser(s, user, t) ==
    LET id == s.currentId
        newUser == [ id |-> id, email |-> user.email,
                     organizationId |-> user.organizationId,
                     createdAt |-> t, updatedAt |-> t ]
    IN  [ store |-> [s EXCEPT !.currentId = id + 1,
                              !.users = Put(s.users, id, newUser)],
          ret |-> newUser ]

\* the first user, in the Map's order, whose email is email up to case
getUserByEmail(s, email) ==
    LET all == Values(s.users)
        found == {i \in DOMAIN all : toLowerCase(all[i].email) = toLowerCase(email)}
    IN  IF found = {} THEN Undefined
        ELSE all[CHOOSE i \in found : \A j \in found : i <= j]

updateUser(s, id, data, t) ==
    LET user == Get(s.users, id)
    IN  IF user = Undefined THEN [store |-> s, ret |-> Undefined]
        ELSE LET updated == Merge(user, data, t)
             IN  [ store |-> [s EXCEPT !.users = Put(s.users, id, updated)],
                   ret |-> updated ]

deleteUser(s, id) ==
    [ store |-> [s EXCEPT !.users = Remove(s.users, id)],
      ret |-> id \in DOMAIN s.users ]

listUsers(s, organizationId) ==
    SelectSeq(Values(s.users), LAMBDA user : user.organizationId = organizationId)

createOrganization(s, organization, t) ==
    LET id == s.currentId
        newOrg == [ id |-> id, name |-> organization.name,
                    createdAt |-> t, updatedAt |-> t ]
    IN  [ store |-> [s EXCEPT !.currentId = id + 1,
                              !.organizations = Put(s.organizations, id, newOrg)],
          ret |-> newOrg ]

\* --- groups

getGroup(s, id) == Get(s.groups, id)

\* a variant that numbers the groups with a counter of their own
createGroup_OwnCounter(s, organizationId, group, t) ==
    LET id == Cardinality(DOMAIN s.groups) + 1
        newGroup == [ id |-> id, name |-> group.name,
                      description |-> OrNull(Field(group, "description")),
                      organizationId |-> organizationId,
                      createdAt |-> t, updatedAt |-> t ]
    IN  [ store |-> [s EXCEPT !.groups = Put(s.groups, id, newGroup)],
          ret |-> newGroup ]

createGroup(s, organizationId, group, t) ==
    LET id == s.currentId
        newGroup == [ id |-> id, name |-> group.name,
                      description |-> OrNull(Field(group, "description")),
                      organizationId |-> organizationId,
                      createdAt |-> t, updatedAt |-> t ]
    IN  [ store |-> [s EXCEPT !.currentId = id + 1,
                              !.groups = Put(s.groups, id, newGroup)],
          ret |-> newGroup ]

updateGroup(s, id, data, t) ==
    LET group == Get(s.groups, id)
    IN  IF group = Undefined THEN [store |-> s, ret |-> Undefined]
        ELSE LET updatedGroup == Merge(group, data, t)
             IN  [ store |-> [s EXCEPT !.groups = Put(s.groups, id, updatedGroup)],
                   ret |-> updatedGroup ]

\* the for-loop of deleteGroup: every target of the group leaves the Map
\* a variant that removes only the first target of the group
DeleteTargetsOfGroup_FirstOnly(tgts, id) ==
    LET members == {k \in DOMAIN tgts : tgts[k].groupId = id}
    IN  IF members = {} THEN tgts
        ELSE Remove(tgts, CHOOSE k \in members : \A j \in members : k <= j)

DeleteTargetsOfGroup(tgts, id) ==
    [x \in {k \in DOMAIN tgts : tgts[k].groupId # id} |-> tgts[x]]

deleteGroup(s, id) ==
    [ store |-> [s EXCEPT !.targets = DeleteTargetsOfGroup(s.targets, id),
                          !.groups = Remove(s.groups, id)],
      ret |-> id \in DOMAIN s.groups ]

TargetCount_All(s, groupId) ==
    Len(Values(s.targets))

TargetCount(s, groupId) ==
    Len(SelectSeq(Values(s.targets), LAMBDA target : target.groupId = groupId))

listGroups(s, organizationId) ==
    LET orgGroups == SelectSeq(Values(s.groups),
                               LAMBDA group : group.organizationId = organizationId)
    IN  [i \in 1..Len(orgGroups) |->
            [group |-> orgGroups[i], targetCount |-> TargetCount(s, orgGroups[i].id)]]

\* --- targets

getTarget(s, id) == Get(s.targets, id)

createTarget(s, organizationId, groupId, target, t) ==
    LET id == s.currentId
        newTarget == [ id |-> id, firstName |-> target.firstName,
                       lastName |-> target.lastName, email |-> target.email,
                       position |-> OrNull(Field(target, "position")),
                       groupId |-> groupId, organizationId |-> organizationId,
                       createdAt |-> t, updatedAt |-> t ]
    IN  [ store |-> [s EXCEPT !.currentId = id + 1,
                              !.targets = Put(s.targets, id, newTarget)],
          ret |-> newTarget ]

updateTarget(s, id, data, t) ==
    LET target == Get(s.targets, id)
    IN  IF target = Undefined THEN [store |-> s, ret |-> Undefined]
        ELSE LET updated == Merge(target, data, t)
             IN  [ store |-> [s EXCEPT !.targets = Put(s.targets, id, updated)],
                   ret |-> updated ]

deleteTarget(s, id) ==
    [ store |-> [s EXCEPT !.targets = Remove(s.targets, id)],
      ret |-> id \in DOMAIN s.targets ]

listTargets(s, groupId) ==
    SelectSeq(Values(s.targets), LAMBDA target : target.groupId = groupId)

\* --- SMTP profiles, email templates, landing pages

getSmtpProfile(s, id) == Get(s.smtpProfiles, id)

createSmtpProfile(s, organizationId, profile, t) ==
    LET id == s.currentId
        newProfile == [ id |-> id, name |-> profile.name,
                        organizationId |-> organizationId,
                        createdAt |-> t, updatedAt |-> t ]
    IN  [ store |-> [s EXCEPT !.currentId = id + 1,
                              !.smtpProfiles = Put(s.smtpProfiles, id, newProfile)],
          ret |-> newProfile ]

updateSmtpProfile(s, id, data, t) ==
    LET profile == Get(s.smtpProfiles, id)
    IN  IF profile = Undefined THEN [store |-> s, ret |-> Undefined]
        ELSE LET updated == Merge(profile, data, t)
             IN  [ store |-> [s EXCEPT !.smtpProfiles = Put(s.smtpProfiles, id, updated)],
                   ret |-> updated ]

deleteSmtpProfile(s, id) ==
    [ store |-> [s EXCEPT !.smtpProfiles = Remove(s.smtpProfiles, id)],
      ret |-> id \in DOMAIN s.smtpProfiles ]

listSmtpProfiles(s, organizationId) ==
    SelectSeq(Values(s.smtpProfiles),
              LAMBDA profile : profile.organizationId = organizationId)

getEmailTemplate(s, id) == Get(s.emailTemplates, id)

createEmailTemplate(s, organizationId, userId, template, t) ==
    LET id == s.currentId
        newTemplate == [ id |-> id, name |-> template.name,
                         textContent |-> OrNull(Field(template, "textContent")),
                         organizationId |-> organizationId,
                         createdById |-> userId,
                         createdAt |-> t, updatedAt |-> t ]
    IN  [ store |-> [s EXCEPT !.currentId = id + 1,
                              !.emailTemplates = Put(s.emailTemplates, id, newTemplate)],
          ret |-> newTemplate ]

updateEmailTemplate(s, id, data, t) ==
    LET template == Get(s.emailTemplates, id)
    IN  IF template = Undefined THEN [store |-> s, ret |-> Undefined]
        ELSE LET updatedTemplate == Merge(template, data, t)
             IN  [ store |-> [s EXCEPT !.emailTemplates =
                                         Put(s.emailTemplates, id, updatedTemplate)],
                   ret |-> updatedTemplate ]

deleteEmailTemplate(s, id) ==
    [ store |-> [s EXCEPT !.emailTemplates = Remove(s.emailTemplates, id)],
      ret |-> id \in DOMAIN s.emailTemplates ]

listEmailTemplates(s, organizationId) ==
    SelectSeq(Values(s.emailTemplates),
              LAMBDA template : template.organizationId = organizationId)

getLandingPage(s, id) == Get(s.landingPages, id)

createLandingPage(s, organizationId, userId, page, t) ==
    LET id == s.currentId
        newPage == [ id |-> id, name |-> page.name,
                     description |-> OrNull(Field(page, "description")),
                     organizationId |-> organizationId,
                     createdById |-> userId,
                     createdAt |-> t, updatedAt |-> t ]
    IN  [ store |-> [s EXCEPT !.currentId = id + 1,
                              !.landingPages = Put(s.landingPages, id, newPage)],
          ret |-> newPage ]

updateLandingPage(s, id, data, t) ==
    LET page == Get(s.landingPages, id)
    IN  IF page = Undefined THEN [store |-> s, ret |-> Undefined]
        ELSE LET updated == Merge(page, data, t)
             IN  [ store |-> [s EXCEPT !.landingPages = Put(s.landingPages, id, updated)],
                   ret |-> updated ]

deleteLandingPage(s, id) ==
    [ store |-> [s EXCEPT !.landingPages = Remove(s.landingPages, id)],
      ret |-> id \in DOMAIN s.landingPages ]

listLandingPages(s, organizationId) ==
    SelectSeq(Values(s.landingPages),
              LAMBDA page : page.organizationId = organizationId)

\* --- campaigns and campaign results

getCampaign(s, id) == Get(s.campaigns, id)

\* campaign.scheduledAt ? new Date(campaign.scheduledAt) : null
DateOrNull(a) == IF a = Missing \/ a = Null THEN Null ELSE a

createCampaign_StatusOfBody(s, organizationId, userId, campaign, t) ==
    LET id == s.currentId
        newCampaign == [ id |-> id, name |-> campaign.name,
                         status |-> IF "status" \in DOMAIN campaign
                                    THEN campaign.status ELSE "Draft",
                         targetGroupId |-> campaign.targetGroupId,
                         smtpProfileId |-> campaign.smtpProfileId,
                         emailTemplateId |-> campaign.emailTemplateId,
                         landingPageId |-> campaign.landingPageId,
                         scheduledAt |-> DateOrNull(Field(campaign, "scheduledAt")),
                         endDate |-> DateOrNull(Field(campaign, "endDate")),
                         createdById |-> userId,
                         organizationId |-> organizationId,
                         createdAt |-> t, updatedAt |-> t ]
    IN  [ store |-> [s EXCEPT !.currentId = id + 1,
                              !.campaigns = Put(s.campaigns, id, newCampaign)],
          ret |-> newCampaign ]

createCampaign(s, organizationId, userId, campaign, t) ==
    LET id == s.currentId
        newCampaign == [ id |-> id, name |-> campaign.name, status |-> "Draft",
                         targetGroupId |-> campaign.targetGroupId,
                         smtpProfileId |-> campaign.smtpProfileId,
                         emailTemplateId |-> campaign.emailTemplateId,
                         landingPageId |-> campaign.landingPageId,
                         scheduledAt |-> DateOrNull(Field(campaign, "scheduledAt")),
                         endDate |-> DateOrNull(Field(campaign, "endDate")),
                         createdById |-> userId,
                         organizationId |-> organizationId,
                         createdAt |-> t, updatedAt |-> t ]
    IN  [ store |-> [s EXCEPT !.currentId = id + 1,
                              !.campaigns = Put(s.campaigns, id, newCampaign)],
          ret |-> newCampaign ]

\* a variant that stores the partial under an id the Map does not hold
updateCampaign_Upsert(s, id, data, t) ==
    LET campaign == Get(s.campaigns, id)
        updated == IF campaign = Undefined THEN Put(data, "updatedAt", t)
                   ELSE Merge(campaign, data, t)
    IN  [ store |-> [s EXCEPT !.campaigns = Put(s.campaigns, id, updated)],
          ret |-> updated ]

updateCampaign(s, id, data, t) ==
    LET campaign == Get(s.campaigns, id)
    IN  IF campaign = Undefined THEN [store |-> s, ret |-> Undefined]
        ELSE LET updated == Merge(campaign, data, t)
             IN  [ store |-> [s EXCEPT !.campaigns = Put(s.campaigns, id, updated)],
                   ret |-> updated ]

\* the for-loop of deleteCampaign: every result of the campaign leaves the Map
\* a variant that removes the results of every campaign
DeleteResultsOfCampaign_All(results, id) == EmptyMap

DeleteResultsOfCampaign(results, id) ==
    [x \in {k \in DOMAIN results : results[k].campaignId # id} |-> results[x]]

deleteCampaign(s, id) ==
    [ store |-> [s EXCEPT !.campaignResults =
                            DeleteResultsOfCampaign(s.campaignResults, id),
                          !.campaigns = Remove(s.campaigns, id)],
      ret |-> id \in DOMAIN s.campaigns ]

listCampaigns(s, organizationId) ==
    SelectSeq(Values(s.campaigns),
              LAMBDA campaign : campaign.organizationId = organizationId)

getCampaignResult(s, id) == Get(s.campaignResults, id)

createCampaignResult(s, organizationId, result, t) ==
    LET id == s.currentId
        newResult == [ id |-> id, campaignId |-> result.campaignId,
                       targetId |-> result.targetId,
                       sent |-> OrFalse(result, "sent"),
                       opened |-> OrFalse(result, "opened"),
                       clicked |-> OrFalse(result, "clicked"),
                       submitted |-> OrFalse(result, "submitted"),
                       organizationId |-> organizationId,
                       createdAt |-> t, updatedAt |-> t ]
    IN  [ store |-> [s EXCEPT !.currentId = id + 1,
                              !.campaignResults = Put(s.campaignResults, id, newResult)],
          ret |-> newResult ]

updateCampaignResult(s, id, data, t) ==
    LET result == Get(s.campaignResults, id)
    IN  IF result = Undefined THEN [store |-> s, ret |-> Undefined]
        ELSE LET updated == Merge(result, data, t)
             IN  [ store |-> [s EXCEPT !.campaignResults = Put(s.campaignResults, id, updated)],
                   ret |-> updated ]

listCampaignResults(s, campaignId) ==
    SelectSeq(Values(s.campaignResults),
              LAMBDA result : result.campaignId = campaignId)

\* --- dashboard

\* a variant that counts the campaigns of the organization in any status
getDashboardStats_AnyStatus(s, organizationId) ==
    [ activeCampaigns |->
          Cardinality({c \in DOMAIN s.campaigns :
                          s.campaigns[c].organizationId = organizationId}),
      campaignChange |-> 12, successRate |-> "32.8", successRateChange |-> "5.2",
      totalUsers |->
          Cardinality({x \in DOMAIN s.users :
                          s.users[x].organizationId = organizationId}),
      newUsers |-> 3, trainingCompletion |-> 78, trainingCompletionChange |-> 8 ]

\* the decimal literals 32.8 and 5.2 are kept as their digits
getDashboardStats(s, organizationId) ==
    [ activeCampaigns |->
          Cardinality({c \in DOMAIN s.campaigns :
                          /\ s.campaigns[c].organizationId = organizationId
                          /\ s.campaigns[c].status = "Active"}),
      campaignChange |-> 12, successRate |-> "32.8", successRateChange |-> "5.2",
      totalUsers |->
          Cardinality({x \in DOMAIN s.users :
                          s.users[x].organizationId = organizationId}),
      newUsers |-> 3, trainingCompletion |-> 78, trainingCompletionChange |-> 8 ]

\* ---------------------------------------------------------------- DatabaseStorage
\* The relational backing: one table per entity with its own serial id, the
\* foreign keys and the unique email of the schema.  A statement that a
\* constraint rejects throws, and the method's promise rejects: thrown.

Tables ==
    {"organizations", "users", "groups", "targets", "smtpProfiles",
     "emailTemplates", "landingPages", "campaigns", "campaignResults"}

DbConstructed == [table \in Tables |-> [rows |-> EmptyMap, serial |-> 1]]

\* .references(() => to.id, { onDelete })
References ==
    { [table |-> tb, column |-> "organizationId", to |-> "organizations",
       onDelete |-> "cascade"] : tb \in Tables \ {"organizations"} }
    \cup
    { [table |-> "targets", column |-> "groupId", to |-> "groups",
       onDelete |-> "cascade"],
      [table |-> "emailTemplates", column |-> "createdById", to |-> "users",
       onDelete |-> "no action"],
      [table |-> "landingPages", column |-> "createdById", to |-> "users",
       onDelete |-> "no action"],
      [table |-> "campaigns", column |-> "targetGroupId", to |-> "groups",
       onDelete |-> "restrict"],
      [table |-> "campaigns", column |-> "smtpProfileId", to |-> "smtpProfiles",
       onDelete |-> "restrict"],
      [table |-> "campaigns", column |-> "emailTemplateId", to |-> "emailTemplates",
       onDelete |-> "restrict"],
      [table |-> "campaigns", column |-> "landingPageId", to |-> "landingPages",
       onDelete |-> "restrict"],
      [table |-> "campaigns", column |-> "createdById", to |-> "users",
       onDelete |-> "no action"],
      [table |-> "campaignResults", column |-> "campaignId", to |-> "campaigns",
       onDelete |-> "cascade"],
      [table |-> "campaignResults", column |-> "targetId", to |-> "targets",
       onDelete |-> "cascade"] }

\* a value that is not supplied leaves the column at its default
OrDefault(obj, f, default) == IF f \in DOMAIN obj THEN obj[f] ELSE default

\* db.insert(table).values(values).returning(): the serial is drawn, then the
\* foreign keys and the unique email are checked
Insert(d, table, values, t) ==
    LET id == d[table].serial
        newRow == values @@ [id |-> id, createdAt |-> t, updatedAt |-> t]
        drawn == [d EXCEPT ![table].serial = id + 1]
        dangling == \E ref \in References :
                        /\ ref.table = table
                        /\ values[ref.column] \notin DOMAIN d[ref.to].rows
        duplicate == /\ table = "users"
                     /\ \E u \in DOMAIN d.users.rows :
                            d.users.rows[u].email = values.email
    IN  IF dangling \/ duplicate
        THEN [store |-> drawn, ret |-> Undefined, thrown |-> TRUE]
        ELSE [store |-> [drawn EXCEPT ![table].rows = Put(@, id, newRow)],
              ret |-> newRow, thrown |-> FALSE]

\* the rows, as <<table, id>>, that go with the doomed rows by ON DELETE CASCADE
RECURSIVE Cascade(_, _)
Cascade(d, doomed) ==
    LET more == UNION { { <<ref.table, i>> :
                            i \in { k \in DOMAIN d[ref.table].rows :
                                      <<ref.to, d[ref.table].rows[k][ref.column]>>
                                          \in doomed } } :
                        ref \in { r \in References : r.onDelete = "cascade" } }
    IN  IF more \subseteq doomed THEN doomed ELSE Cascade(d, doomed \cup more)

\* db.delete(table).where(eq(table.id, id)): rejected when a row that stays
\* refers to a row that goes; ret is the result's rowCount
Delete(d, table, id) ==
    LET doomed == IF id \in DOMAIN d[table].rows
                  THEN Cascade(d, {<<table, id>>}) ELSE {}
        held == \E ref \in References :
                    /\ ref.onDelete # "cascade"
                    /\ \E k \in DOMAIN d[ref.table].rows :
                          /\ <<ref.table, k>> \notin doomed
                          /\ <<ref.to, d[ref.table].rows[k][ref.column]>> \in doomed
    IN  IF held
        THEN [store |-> d, ret |-> Undefined, thrown |-> TRUE]
        ELSE [store |-> [tb \in Tables |->
                            [d[tb] EXCEPT !.rows =
                                [k \in { i \in DOMAIN @ : <<tb, i>> \notin doomed }
                                    |-> @[k]]]],
              ret |-> [rowCount |-> IF doomed = {} THEN 0 ELSE 1],
              thrown |-> FALSE]

DatabaseStorage_createOrganization(d, organization, t) ==
    Insert(d, "organizations", [name |-> organization.name], t)

DatabaseStorage_createUser(d, user, t) ==
    Insert(d, "users",
           [email |-> user.email, organizationId |-> user.organizationId], t)

\* where(eq(users.email, email)): the email as it is spelt
DatabaseStorage_getUserByEmail(d, email) ==
    LET found == { u \in DOMAIN d.users.rows : d.users.rows[u].email = email }
    IN  IF found = {} THEN Undefined ELSE d.users.rows[CHOOSE u \in found : TRUE]

DatabaseStorage_createGroup(d, organizationId, group, t) ==
    Insert(d, "groups",
           [name |-> group.name, description |-> OrDefault(group, "description", Null),
            organizationId |-> organizationId], t)

DatabaseStorage_createTarget(d, organizationId, groupId, target, t) ==
    Insert(d, "targets",
           [firstName |-> target.firstName, lastName |-> target.lastName,
            email |-> target.email, position |-> OrDefault(target, "position", Null),
            groupId |-> groupId, organizationId |-> organizationId], t)

DatabaseStorage_createSmtpProfile(d, organizationId, profile, t) ==
    Insert(d, "smtpProfiles",
           [name |-> profile.name, organizationId |-> organizationId], t)

DatabaseStorage_createEmailTemplate(d, organizationId, userId, template, t) ==
    Insert(d, "emailTemplates",
           [name |-> template.name,
            textContent |-> OrDefault(template, "textContent", Null),
            organizationId |-> organizationId, createdById |-> userId], t)

DatabaseStorage_createLandingPage(d, organizationId, userId, page, t) ==
    Insert(d, "landingPages",
           [name |-> page.name, description |-> OrDefault(page, "description", Null),
            organizationId |-> organizationId, createdById |-> userId], t)

DatabaseStorage_createCampaign(d, organizationId, userId, campaign, t) ==
    Insert(d, "campaigns",
           [name |-> campaign.name, status |-> "Draft",
            targetGroupId |-> campaign.targetGroupId,
            smtpProfileId |-> campaign.smtpProfileId,
            emailTemplateId |-> campaign.emailTemplateId,
            landingPageId |-> campaign.landingPageId,
            scheduledAt |-> DateOrNull(Field(campaign, "scheduledAt")),
            endDate |-> DateOrNull(Field(campaign, "endDate")),
            createdById |-> userId, organizationId |-> organizationId], t)

DatabaseStorage_createCampaignResult(d, organizationId, result, t) ==
    Insert(d, "campaignResults",
           [campaignId |-> result.campaignId, targetId |-> result.targetId,
            sent |-> OrDefault(result, "sent", FALSE),
            opened |-> OrDefault(result, "opened", FALSE),
            clicked |-> OrDefault(result, "clicked", FALSE),
            submitted |-> OrDefault(result, "submitted", FALSE),
            organizationId |-> organizationId], t)

DatabaseStorage_listCampaignResults(d, campaignId) ==
    SelectSeq(Values(d.campaignResults.rows),
              LAMBDA result : result.campaignId = campaignId)

\* a variant that reports whether a row was deleted
DatabaseStorage_delete_RowCount(d, table, id) ==
    LET done == Delete(d, table, id)
    IN  IF done.thrown THEN done ELSE [done EXCEPT !.ret = done.ret.rowCount > 0]

\* deleteUser, deleteGroup, deleteTarget, deleteSmtpProfile,
\* deleteEmailTemplate, deleteLandingPage and deleteCampaign, each on its
\* table: await db.delete(table).where(eq(table.id, id)); return true
DatabaseStorage_delete(d, table, id) ==
    LET done == Delete(d, table, id)
    IN  IF done.thrown THEN done ELSE [done EXCEPT !.ret = TRUE]

\* ---------------------------------------------------------------- schemas

\* the keys of body the schema keeps (zod drops the keys it does not know)
\* a variant that keeps every key of the body
Pick_Passthrough(body, fields) == body

Pick(body, fields) == [f \in (DOMAIN body) \cap fields |-> body[f]]

\* schema.parse(body): the required fields must be there; the parsed data
\* carries the schema's fields that the body supplies, and nothing else
Parse(body, required, optional) ==
    [ success |-> required \subseteq DOMAIN body,
      issues  |-> required \ DOMAIN body,
      data    |-> Pick(body, required \cup optional) ]

insertGroupSchema(body) == Parse(body, {"name"}, {"description"})

insertTargetSchema(body) ==
    Parse(body, {"firstName", "lastName", "email"}, {"position"})

insertSmtpProfileSchema(body) == Parse(body, {"name"}, {})

insertEmailTemplateSchema(body) == Parse(body, {"name"}, {"textContent"})

insertLandingPageSchema(body) == Parse(body, {"name"}, {"description"})

insertCampaignSchema(body) ==
    Parse(body, {"name", "targetGroupId", "smtpProfileId", "emailTemplateId",
                 "landingPageId"}, {"scheduledAt", "endDate"})

\* ---------------------------------------------------------------- routes
\* A route handler is an operator of the store s, the clock t, the session's
\* user u (the key of a row of s.users: req.user) and the request's inputs;
\* it yields the store after the request and the response.

Response(status, message, body) ==
    [status |-> status, message |-> message, body |-> body]

NoBody == "none"

Reply(s, status, message, body) ==
    [store |-> s, resp |-> Response(status, message, body)]

\* --- groups

GET_groups(s, t, u) ==
    Reply(s, 200, "", listGroups(s, s.users[u].organizationId))

POST_groups(s, t, u, body) ==
    LET validated == insertGroupSchema(body)
    IN  IF ~validated.success
        THEN Reply(s, 400, "Validation error", validated.issues)
        ELSE LET c == createGroup(s, s.users[u].organizationId, validated.data, t)
             IN  Reply(c.store, 201, "", c.ret)

\* a variant without the answer for a group that is not in the store
PUT_groups_id_MissingUnchecked(s, t, u, groupId, body) ==
    LET group == getGroup(s, groupId)
        validated == insertGroupSchema(body)
    IN  IF group # Undefined /\ group.organizationId # s.users[u].organizationId
        THEN Reply(s, 403, "Access denied", NoBody)
        ELSE IF ~validated.success
        THEN Reply(s, 400, "Validation error", validated.issues)
        ELSE LET c == updateGroup(s, groupId, validated.data, t)
             IN  Reply(c.store, 200, "", c.ret)

PUT_groups_id(s, t, u, groupId, body) ==
    LET group == getGroup(s, groupId)
        validated == insertGroupSchema(body)
    IN  IF group = Undefined
        THEN Reply(s, 404, "Group not found", NoBody)
        ELSE IF group.organizationId # s.users[u].organizationId
        THEN Reply(s, 403, "Access denied", NoBody)
        ELSE IF ~validated.success
        THEN Reply(s, 400, "Validation error", validated.issues)
        ELSE LET c == updateGroup(s, groupId, validated.data, t)
             IN  Reply(c.store, 200, "", c.ret)

DELETE_groups_id(s, t, u, groupId) ==
    LET group == getGroup(s, groupId)
    IN  IF group = Undefined
        THEN Reply(s, 404, "Group not found", NoBody)
        ELSE IF group.organizationId # s.users[u].organizationId
        THEN Reply(s, 403, "Access denied", NoBody)
        ELSE Reply(deleteGroup(s, groupId).store, 204, "", NoBody)

\* --- targets

\* a variant that lists the targets of any group that exists
GET_groups_id_targets_AnyGroup(s, t, u, groupId) ==
    LET group == getGroup(s, groupId)
    IN  IF group = Undefined
        THEN Reply(s, 404, "Group not found", NoBody)
        ELSE Reply(s, 200, "", listTargets(s, groupId))

GET_groups_id_targets(s, t, u, groupId) ==
    LET group == getGroup(s, groupId)
    IN  IF group = Undefined
        THEN Reply(s, 404, "Group not found", NoBody)
        ELSE IF group.organizationId # s.users[u].organizationId
        THEN Reply(s, 403, "Access denied", NoBody)
        ELSE Reply(s, 200, "", listTargets(s, groupId))

POST_groups_id_targets(s, t, u, groupId, body) ==
    LET group == getGroup(s, groupId)
        validated == insertTargetSchema(body)
    IN  IF group = Undefined
        THEN Reply(s, 404, "Group not found", NoBody)
        ELSE IF group.organizationId # s.users[u].organizationId
        THEN Reply(s, 403, "Access denied", NoBody)
        ELSE IF ~validated.success
        THEN Reply(s, 400, "Validation error", validated.issues)
        ELSE LET c == createTarget(s, s.users[u].organizationId, groupId,
                                   validated.data, t)
             IN  Reply(c.store, 201, "", c.ret)

\* --- import

K_firstname == <<"f", "i", "r", "s", "t", "n", "a", "m", "e">>
K_first_name == <<"f", "i", "r", "s", "t", "_", "n", "a", "m", "e">>
K_lastname == <<"l", "a", "s", "t", "n", "a", "m", "e">>
K_last_name == <<"l", "a", "s", "t", "_", "n", "a", "m", "e">>
K_email == <<"e", "m", "a", "i", "l">>
K_position == <<"p", "o", "s", "i", "t", "i", "o", "n">>
K_title == <<"t", "i", "t", "l", "e">>

\* a variant that compares the key as it is spelt in the file
NormalizeEntry_CaseSensitive(normalizedRow, key, value) ==
    IF key = K_firstname \/ key = K_first_name
    THEN Put(normalizedRow, "firstName", value)
    ELSE IF key = K_lastname \/ key = K_last_name
    THEN Put(normalizedRow, "lastName", value)
    ELSE IF key = K_email
    THEN Put(normalizedRow, "email", value)
    ELSE IF key = K_position \/ key = K_title
    THEN Put(normalizedRow, "position", value)
    ELSE normalizedRow

\* one pass of the inner loop: the field a column is stored under, if any
NormalizeEntry(normalizedRow, key, value) ==
    LET lowercaseKey == toLowerCase(key)
    IN  IF lowercaseKey = K_firstname \/ lowercaseKey = K_first_name
        THEN Put(normalizedRow, "firstName", value)
        ELSE IF lowercaseKey = K_lastname \/ lowercaseKey = K_last_name
        THEN Put(normalizedRow, "lastName", value)
        ELSE IF lowercaseKey = K_email
        THEN Put(normalizedRow, "email", value)
        ELSE IF lowercaseKey = K_position \/ lowercaseKey = K_title
        THEN Put(normalizedRow, "position", value)
        ELSE normalizedRow

\* a row is the sequence of its <<key, value>> entries, in column order
RECURSIVE NormalizeRow(_, _)
NormalizeRow(entries, normalizedRow) ==
    IF entries = << >> THEN normalizedRow
    ELSE NormalizeRow(Tail(entries),
                      NormalizeEntry(normalizedRow, Head(entries)[1], Head(entries)[2]))

EmptyObject == [f \in {} |-> Missing]

\* the body of the for-loop over results.data for the row at index (0-based);
\* acc holds the store, importedTargets and errors so far
\* a variant that skips a row that fails, without recording it
ImportRow_Unrecorded(acc, organizationId, groupId, row, index, t) ==
    LET validated == insertTargetSchema(NormalizeRow(row, EmptyObject))
    IN  IF validated.success
        THEN LET c == createTarget(acc.store, organizationId, groupId,
                                   validated.data, t)
             IN  [ store |-> c.store,
                   importedTargets |-> Append(acc.importedTargets, c.ret),
                   errors |-> acc.errors ]
        ELSE acc

\* a variant that reports a failing row under its index among the data rows
ImportRow_RowIsIndex(acc, organizationId, groupId, row, index, t) ==
    LET validated == insertTargetSchema(NormalizeRow(row, EmptyObject))
    IN  IF validated.success
        THEN LET c == createTarget(acc.store, organizationId, groupId,
                                   validated.data, t)
             IN  [ store |-> c.store,
                   importedTargets |-> Append(acc.importedTargets, c.ret),
                   errors |-> acc.errors ]
        ELSE [ store |-> acc.store,
               importedTargets |-> acc.importedTargets,
               errors |-> Append(acc.errors,
                                 [row |-> index, error |-> validated.issues]) ]

ImportRow(acc, organizationId, groupId, row, index, t) ==
    LET validated == insertTargetSchema(NormalizeRow(row, EmptyObject))
    IN  IF validated.success
        THEN LET c == createTarget(acc.store, organizationId, groupId,
                                   validated.data, t)
             IN  [ store |-> c.store,
                   importedTargets |-> Append(acc.importedTargets, c.ret),
                   errors |-> acc.errors ]
        ELSE [ store |-> acc.store,
               importedTargets |-> acc.importedTargets,
               errors |-> Append(acc.errors,
                                 [row |-> index + 2, error |-> validated.issues]) ]

RECURSIVE ImportLoop(_, _, _, _, _, _)
\* a variant that leaves the loop at the first row that fails
ImportLoop_StopOnError(acc, organizationId, groupId, data, index, t) ==
    IF index >= Len(data) \/ Len(acc.errors) > 0 THEN acc
    ELSE ImportLoop(ImportRow(acc, organizationId, groupId, data[index + 1], index, t),
                    organizationId, groupId, data, index + 1, t)

ImportLoop(acc, organizationId, groupId, data, index, t) ==
    IF index >= Len(data) THEN acc
    ELSE ImportLoop(ImportRow(acc, organizationId, groupId, data[index + 1], index, t),
                    organizationId, groupId, data, index + 1, t)

\* a variant that imports the rows of a file the parser reported errors for
POST_groups_id_import_ErrorsIgnored(s, t, u, groupId, file) ==
    LET group == getGroup(s, groupId)
    IN  IF group = Undefined
        THEN Reply(s, 404, "Group not found", NoBody)
        ELSE IF group.organizationId # s.users[u].organizationId
        THEN Reply(s, 403, "Access denied", NoBody)
        ELSE IF file.missing
        THEN Reply(s, 400, "No file uploaded", NoBody)
        ELSE LET done == ImportLoop([store |-> s, importedTargets |-> << >>,
                                     errors |-> << >>],
                                    s.users[u].organizationId, groupId,
                                    file.data, 0, t)
             IN  Reply(done.store, 200, "",
                       IF Len(done.errors) > 0
                       THEN [ imported |-> Len(done.importedTargets),
                              failed |-> Len(done.errors),
                              errors |-> done.errors ]
                       ELSE [ imported |-> Len(done.importedTargets),
                              failed |-> Len(done.errors) ])

\* a variant that imports into any group that exists
POST_groups_id_import_AnyGroup(s, t, u, groupId, file) ==
    LET group == getGroup(s, groupId)
    IN  IF group = Undefined
        THEN Reply(s, 404, "Group not found", NoBody)
        ELSE IF file.missing
        THEN Reply(s, 400, "No file uploaded", NoBody)
        ELSE IF file.errors
        THEN Reply(s, 400, "CSV parsing error", NoBody)
        ELSE LET done == ImportLoop([store |-> s, importedTargets |-> << >>,
                                     errors |-> << >>],
                                    s.users[u].organizationId, groupId,
                                    file.data, 0, t)
             IN  Reply(done.store, 200, "",
                       IF Len(done.errors) > 0
                       THEN [ imported |-> Len(done.importedTargets),
                              failed |-> Len(done.errors),
                              errors |-> done.errors ]
                       ELSE [ imported |-> Len(done.importedTargets),
                              failed |-> Len(done.errors) ])

\* file is what multer and Papa.parse make of the upload: missing (no file
\* field), or the parser's errors (any or none) and data rows
POST_groups_id_import(s, t, u, groupId, file) ==
    LET group == getGroup(s, groupId)
    IN  IF group = Undefined
        THEN Reply(s, 404, "Group not found", NoBody)
        ELSE IF group.organizationId # s.users[u].organizationId
        THEN Reply(s, 403, "Access denied", NoBody)
        ELSE IF file.missing
        THEN Reply(s, 400, "No file uploaded", NoBody)
        ELSE IF file.errors
        THEN Reply(s, 400, "CSV parsing error", NoBody)
        ELSE LET done == ImportLoop([store |-> s, importedTargets |-> << >>,
                                     errors |-> << >>],
                                    s.users[u].organizationId, groupId,
                                    file.data, 0, t)
             IN  Reply(done.store, 200, "",
                       IF Len(done.errors) > 0
                       THEN [ imported |-> Len(done.importedTargets),
                              failed |-> Len(done.errors),
                              errors |-> done.errors ]
                       ELSE [ imported |-> Len(done.importedTargets),
                              failed |-> Len(done.errors) ])

\* --- SMTP profiles, email templates, landing pages

GET_smtp_profiles(s, t, u) ==
    Reply(s, 200, "", listSmtpProfiles(s, s.users[u].organizationId))

POST_smtp_profiles(s, t, u, body) ==
    LET validated == insertSmtpProfileSchema(body)
    IN  IF ~validated.success
        THEN Reply(s, 400, "Validation error", validated.issues)
        ELSE LET c == createSmtpProfile(s, s.users[u].organizationId,
                                        validated.data, t)
             IN  Reply(c.store, 201, "", c.ret)

GET_email_templates(s, t, u) ==
    Reply(s, 200, "", listEmailTemplates(s, s.users[u].organizationId))

POST_email_templates(s, t, u, body) ==
    LET validated == insertEmailTemplateSchema(body)
    IN  IF ~validated.success
        THEN Reply(s, 400, "Validation error", validated.issues)
        ELSE LET c == createEmailTemplate(s, s.users[u].organizationId,
                                          s.users[u].id, validated.data, t)
             IN  Reply(c.store, 201, "", c.ret)

\* a variant without the check of the template's organization
PUT_email_templates_id_AnyOrganization(s, t, u, templateId, body) ==
    LET template == getEmailTemplate(s, templateId)
        validated == insertEmailTemplateSchema(body)
    IN  IF template = Undefined
        THEN Reply(s, 404, "Email template not found", NoBody)
        ELSE IF ~validated.success
        THEN Reply(s, 400, "Validation error", validated.issues)
        ELSE LET c == updateEmailTemplate(s, templateId, validated.data, t)
             IN  Reply(c.store, 200, "", c.ret)

PUT_email_templates_id(s, t, u, templateId, body) ==
    LET template == getEmailTemplate(s, templateId)
        validated == insertEmailTemplateSchema(body)
    IN  IF template = Undefined
        THEN Reply(s, 404, "Email template not found", NoBody)
        ELSE IF template.organizationId # s.users[u].organizationId
        THEN Reply(s, 403, "Access denied", NoBody)
        ELSE IF ~validated.success
        THEN Reply(s, 400, "Validation error", validated.issues)
        ELSE LET c == updateEmailTemplate(s, templateId, validated.data, t)
             IN  Reply(c.store, 200, "", c.ret)

GET_landing_pages(s, t, u) ==
    Reply(s, 200, "", listLandingPages(s, s.users[u].organizationId))

POST_landing_pages(s, t, u, body) ==
    LET validated == insertLandingPageSchema(body)
    IN  IF ~validated.success
        THEN Reply(s, 400, "Validation error", validated.issues)
        ELSE LET c == createLandingPage(s, s.users[u].organizationId,
                                        s.users[u].id, validated.data, t)
             IN  Reply(c.store, 201, "", c.ret)

\* --- campaigns

\* the campaign list joined with its group's name and number of targets
\* (openRate and clickRate are random mock numbers and are left out)
GET_campaigns(s, t, u) ==
    LET campaignList == listCampaigns(s, s.users[u].organizationId)
        Joined(campaign) ==
            LET group == getGroup(s, campaign.targetGroupId)
                targets == listTargets(s, campaign.targetGroupId)
            IN  [ campaign |-> campaign,
                  targetGroup |-> IF group = Undefined THEN "Unknown" ELSE group.name,
                  totalTargets |-> Len(targets),
                  sentCount |-> 0 ]
    IN  Reply(s, 200, "", [i \in 1..Len(campaignList) |-> Joined(campaignList[i])])

\* !entity || entity.organizationId !== req.user.organizationId
\* a variant that looks only at whether the entity exists
Foreign_MissingOnly(entity, organizationId) == entity = Undefined

Foreign(entity, organizationId) ==
    entity = Undefined \/ entity.organizationId # organizationId

\* a variant that creates the campaign without looking at the landing page
POST_campaigns_PageUnchecked(s, t, u, body) ==
    LET user == s.users[u]
        validated == insertCampaignSchema(body)
        validatedData == validated.data
    IN  IF ~validated.success
        THEN Reply(s, 400, "Validation error", validated.issues)
        ELSE IF Foreign(getGroup(s, validatedData.targetGroupId), user.organizationId)
        THEN Reply(s, 403, "Access denied: Invalid target group", NoBody)
        ELSE IF Foreign(getSmtpProfile(s, validatedData.smtpProfileId),
                        user.organizationId)
        THEN Reply(s, 403, "Access denied: Invalid SMTP profile", NoBody)
        ELSE IF Foreign(getEmailTemplate(s, validatedData.emailTemplateId),
                        user.organizationId)
        THEN Reply(s, 403, "Access denied: Invalid email template", NoBody)
        ELSE LET c == createCampaign(s, user.organizationId, user.id,
                                     validatedData, t)
             IN  Reply(c.store, 201, "", c.ret)

\* a variant that launches the campaign it created
POST_campaigns_Launched(s, t, u, body) ==
    LET user == s.users[u]
        validated == insertCampaignSchema(body)
        validatedData == validated.data
    IN  IF ~validated.success
        THEN Reply(s, 400, "Validation error", validated.issues)
        ELSE IF Foreign(getGroup(s, validatedData.targetGroupId), user.organizationId)
        THEN Reply(s, 403, "Access denied: Invalid target group", NoBody)
        ELSE IF Foreign(getSmtpProfile(s, validatedData.smtpProfileId),
                        user.organizationId)
        THEN Reply(s, 403, "Access denied: Invalid SMTP profile", NoBody)
        ELSE IF Foreign(getEmailTemplate(s, validatedData.emailTemplateId),
                        user.organizationId)
        THEN Reply(s, 403, "Access denied: Invalid email template", NoBody)
        ELSE IF Foreign(getLandingPage(s, validatedData.landingPageId),
                        user.organizationId)
        THEN Reply(s, 403, "Access denied: Invalid landing page", NoBody)
        ELSE LET c == createCampaign(s, user.organizationId, user.id,
                                     validatedData, t)
                 launched == updateCampaign(c.store, c.ret.id,
                                            [status |-> "Active"], t)
             IN  Reply(launched.store, 201, "", launched.ret)

POST_campaigns(s, t, u, body) ==
    LET user == s.users[u]
        validated == insertCampaignSchema(body)
        validatedData == validated.data
    IN  IF ~validated.success
        THEN Reply(s, 400, "Validation error", validated.issues)
        ELSE IF Foreign(getGroup(s, validatedData.targetGroupId), user.organizationId)
        THEN Reply(s, 403, "Access denied: Invalid target group", NoBody)
        ELSE IF Foreign(getSmtpProfile(s, validatedData.smtpProfileId),
                        user.organizationId)
        THEN Reply(s, 403, "Access denied: Invalid SMTP profile", NoBody)
        ELSE IF Foreign(getEmailTemplate(s, validatedData.emailTemplateId),
                        user.organizationId)
        THEN Reply(s, 403, "Access denied: Invalid email template", NoBody)
        ELSE IF Foreign(getLandingPage(s, validatedData.landingPageId),
                        user.organizationId)
        THEN Reply(s, 403, "Access denied: Invalid landing page", NoBody)
        ELSE LET c == createCampaign(s, user.organizationId, user.id,
                                     validatedData, t)
             IN  Reply(c.store, 201, "", c.ret)

\* --- users

GET_users(s, t, u) ==
    Reply(s, 200, "", listUsers(s, s.users[u].organizationId))

\* --- dashboard

GET_dashboard_stats(s, t, u) ==
    Reply(s, 200, "", getDashboardStats(s, s.users[u].organizationId))

\* ---------------------------------------------------------------- inputs

\* an id that no Map holds (ids start at 1)
NoSuchId == 0

\* the :id values a request is tried with: every key of the Map and a miss
IdsOf(m) == (DOMAIN m) \cup {NoSuchId}

GroupBodies ==
    { [name |-> "n2", description |-> "d", organizationId |-> 1],
      [description |-> "d"] }

TargetBodies ==
    { [firstName |-> "A", lastName |-> "X", email |-> "a@x"],
      [firstName |-> "B", email |-> "b@x"] }

NamedBodies == { [name |-> "n1"], EmptyObject }

CampaignBodies(s) ==
    { [name |-> "n1", targetGroupId |-> g, smtpProfileId |-> p,
       emailTemplateId |-> e, landingPageId |-> l] :
         g \in IdsOf(s.groups), p \in IdsOf(s.smtpProfiles),
         e \in IdsOf(s.emailTemplates), l \in IdsOf(s.landingPages) }
    \cup
    { [targetGroupId |-> g, smtpProfileId |-> NoSuchId,
       emailTemplateId |-> NoSuchId, landingPageId |-> NoSuchId] :
         g \in IdsOf(s.groups) }
    \cup
    { [name |-> "n1", targetGroupId |-> g, smtpProfileId |-> p,
       emailTemplateId |-> e, landingPageId |-> l, status |-> "Active",
       createdById |-> NoSuchId, organizationId |-> NoSuchId,
       createdAt |-> 9, updatedAt |-> 9] :
         g \in IdsOf(s.groups), p \in IdsOf(s.smtpProfiles),
         e \in IdsOf(s.emailTemplates), l \in IdsOf(s.landingPages) }

\* parsed CSV rows: mixed-case headers with a title column; no last-name
\* column; an unknown column and two first-name columns
RowFull ==
    << <<(<<"F", "i", "r", "s", "t", "N", "a", "m", "e">>), "A">>,
       <<K_last_name, "X">>,
       <<(<<"E", "M", "A", "I", "L">>), "a@x">>,
       <<(<<"T", "i", "t", "l", "e">>), "Dev">> >>

RowNoLastName ==
    << <<K_firstname, "B">>, <<K_email, "">> >>

RowExtra ==
    << <<K_firstname, "C">>,
       <<(<<"d", "e", "p", "t">>), "Ops">>,
       <<K_first_name, "D">>,
       <<K_lastname, "Y">>,
       <<K_email, "c@x">> >>

RowSamples == {RowFull, RowNoLastName, RowExtra}

RECURSIVE SeqsUpTo(_, _)
SeqsUpTo(S, n) ==
    IF n = 0 THEN { << >> }
    ELSE LET shorter == SeqsUpTo(S, n - 1)
         IN  shorter \cup { Append(q, x) : q \in shorter, x \in S }

NoFile == [missing |-> TRUE, errors |-> FALSE, data |-> << >>]

\* an upload is missing, or parses with errors (and whatever rows the
\* parser made out), or parses into rows
Files ==
    {NoFile} \cup
    { [missing |-> FALSE, errors |-> TRUE, data |-> d] :
        d \in {<< >>, <<RowFull>>} } \cup
    { [missing |-> FALSE, errors |-> FALSE, data |-> d] :
        d \in SeqsUpTo(RowSamples, MaxRows) }

\* ---------------------------------------------------------------- the routes' system

\* two accounts have registered, each with its own organization
Registered ==
    LET o1 == createOrganization(Constructed, [name |-> "org1"], 0)
        u1 == createUser(o1.store,
                         [email |-> <<"a", "@", "x">>, organizationId |-> o1.ret.id], 0)
        o2 == createOrganization(u1.store, [name |-> "org2"], 0)
        u2 == createUser(o2.store,
                         [email |-> <<"b", "@", "y">>, organizationId |-> o2.ret.id], 0)
    IN  u2.store

Sessions == DOMAIN Registered.users

Orgs == DOMAIN Registered.organizations

FirstUser == CHOOSE u \in Sessions : \A v \in Sessions : u <= v

SecondUser == CHOOSE u \in Sessions : u # FirstUser

\* the first account has then posted a group with one target, an SMTP
\* profile, an email template and a landing page, and the second account a
\* group
Prepared ==
    LET s1 == POST_groups(Registered, 0, FirstUser, [name |-> "n1"])
        s2 == POST_groups_id_targets(s1.store, 0, FirstUser, s1.resp.body.id,
                  [firstName |-> "A", lastName |-> "X", email |-> "a@x"]).store
        s3 == POST_smtp_profiles(s2, 0, FirstUser, [name |-> "n1"]).store
        s4 == POST_email_templates(s3, 0, FirstUser, [name |-> "n1"]).store
        s5 == POST_landing_pages(s4, 0, FirstUser, [name |-> "n1"]).store
    IN  POST_groups(s5, 0, SecondUser, [name |-> "n1"]).store

\* the organizationId each row of s was created under
OriginOf(s) ==
    [id \in 1..(s.currentId - 1) |->
        IF id \in DOMAIN s.organizations THEN id
        ELSE LET m == CHOOSE m \in {s.users, s.groups, s.targets, s.smtpProfiles,
                                    s.emailTemplates, s.landingPages,
                                    s.campaigns, s.campaignResults} :
                                 id \in DOMAIN m
             IN  m[id].organizationId]

Init ==
    /\ mem \in {Registered, Prepared}
    /\ now = 0
    /\ origin = OriginOf(mem)
    /\ made = 0
    /\ parsed = << >>
    /\ db = DbConstructed
    /\ running = << >>

\* the rows s2 holds that the store did not hold were created under organizationId
Stamp(s2, organizationId) ==
    [id \in 1..(s2.currentId - 1) |->
        IF id \in DOMAIN origin THEN origin[id] ELSE organizationId]

\* one request of the session u served: h is the handler's result
Serve(u, h) ==
    /\ made + (h.store.currentId - mem.currentId) <= MaxMade
    /\ mem' = h.store
    /\ origin' = Stamp(h.store, mem.users[u].organizationId)
    /\ made' = made + (h.store.currentId - mem.currentId)
    /\ UNCHANGED <<now, parsed, db, running>>

Next ==
    \/ \E u \in DOMAIN mem.users : Serve(u, GET_groups(mem, now, u))
    \/ \E u \in DOMAIN mem.users, body \in GroupBodies :
          Serve(u, POST_groups(mem, now, u, body))
    \/ \E u \in DOMAIN mem.users, id \in IdsOf(mem.groups), body \in GroupBodies :
          Serve(u, PUT_groups_id(mem, now, u, id, body))
    \/ \E u \in DOMAIN mem.users, id \in IdsOf(mem.groups) :
          Serve(u, DELETE_groups_id(mem, now, u, id))
    \/ \E u \in DOMAIN mem.users, id \in IdsOf(mem.groups) :
          Serve(u, GET_groups_id_targets(mem, now, u, id))
    \/ \E u \in DOMAIN mem.users, id \in IdsOf(mem.groups), body \in TargetBodies :
          Serve(u, POST_groups_id_targets(mem, now, u, id, body))
    \/ \E u \in DOMAIN mem.users, id \in IdsOf(mem.groups), file \in Files :
          Serve(u, POST_groups_id_import(mem, now, u, id, file))
    \/ \E u \in DOMAIN mem.users : Serve(u, GET_smtp_profiles(mem, now, u))
    \/ \E u \in DOMAIN mem.users, body \in NamedBodies :
          Serve(u, POST_smtp_profiles(mem, now, u, body))
    \/ \E u \in DOMAIN mem.users : Serve(u, GET_email_templates(mem, now, u))
    \/ \E u \in DOMAIN mem.users, body \in NamedBodies :
          Serve(u, POST_email_templates(mem, now, u, body))
    \/ \E u \in DOMAIN mem.users, id \in IdsOf(mem.emailTemplates),
          body \in NamedBodies :
          Serve(u, PUT_email_templates_id(mem, now, u, id, body))
    \/ \E u \in DOMAIN mem.users : Serve(u, GET_landing_pages(mem, now, u))
    \/ \E u \in DOMAIN mem.users, body \in NamedBodies :
          Serve(u, POST_landing_pages(mem, now, u, body))
    \/ \E u \in DOMAIN mem.users : Serve(u, GET_campaigns(mem, now, u))
    \/ \E u \in DOMAIN mem.users, body \in CampaignBodies(mem) :
          Serve(u, POST_campaigns(mem, now, u, body))
    \/ \E u \in DOMAIN mem.users : Serve(u, GET_users(mem, now, u))
    \/ \E u \in DOMAIN mem.users : Serve(u, GET_dashboard_stats(mem, now, u))

Spec == Init /\ [][Next]_vars

\* ---------------------------------------------------------------- the store's system
\* The store's methods called directly, with any arguments: the store checks
\* none of them.

\* on top of the store p: a target in the second account's group, a campaign
\* of each organization and three campaign results
Stock(p) ==
    LET o1 == p.users[FirstUser].organizationId
        o2 == p.users[SecondUser].organizationId
        g1 == CHOOSE g \in DOMAIN p.groups : p.groups[g].organizationId = o1
        g2 == CHOOSE g \in DOMAIN p.groups : p.groups[g].organizationId = o2
        t1 == CHOOSE x \in DOMAIN p.targets : TRUE
        refs == [name |-> "n1", targetGroupId |-> g1,
                 smtpProfileId |-> CHOOSE x \in DOMAIN p.smtpProfiles : TRUE,
                 emailTemplateId |-> CHOOSE x \in DOMAIN p.emailTemplates : TRUE,
                 landingPageId |-> CHOOSE x \in DOMAIN p.landingPages : TRUE]
        a == createTarget(p, o2, g2,
                          [firstName |-> "B", lastName |-> "Y", email |-> "b@y"], 0)
        b == createCampaign(a.store, o1, FirstUser, refs, 0)
        c == createCampaign(b.store, o2, SecondUser,
                            [refs EXCEPT !.targetGroupId = g2], 0)
        d == createCampaignResult(c.store, o1,
                                  [campaignId |-> b.ret.id, targetId |-> t1], 0)
        e == createCampaignResult(d.store, o1,
                                  [campaignId |-> b.ret.id, targetId |-> a.ret.id], 0)
    IN  createCampaignResult(e.store, o2,
                             [campaignId |-> c.ret.id, targetId |-> a.ret.id], 0).store

Stocked == CHOOSE s \in { Stock(p) : p \in {Prepared} } : TRUE

StoreInit ==
    /\ mem \in {Constructed, Stocked}
    /\ now = 0
    /\ origin = OriginOf(mem)
    /\ made = 0
    /\ parsed = << >>
    /\ db = DbConstructed
    /\ running = << >>

\* one call of a method of the store: r is what it yields
Call(r, organizationId) ==
    /\ made + (r.store.currentId - mem.currentId) <= MaxMade
    /\ mem' = r.store
    /\ origin' = Stamp(r.store, organizationId)
    /\ made' = made + (r.store.currentId - mem.currentId)
    /\ UNCHANGED <<now, parsed, db, running>>

StoreNext ==
    \/ \E o \in Orgs : Call(createGroup(mem, o, [name |-> "n1"], now), o)
    \/ \E o \in Orgs, g \in IdsOf(mem.groups) :
          Call(createTarget(mem, o, g,
                            [firstName |-> "A", lastName |-> "X", email |-> "a@x"],
                            now), o)
    \/ \E id \in IdsOf(mem.groups) : Call(deleteGroup(mem, id), NoSuchId)
    \/ \E id \in IdsOf(mem.targets) : Call(deleteTarget(mem, id), NoSuchId)
    \/ \E o \in Orgs, g \in IdsOf(mem.groups) :
          Call(createCampaign(mem, o, FirstUser,
                   [name |-> "n1", targetGroupId |-> g, smtpProfileId |-> NoSuchId,
                    emailTemplateId |-> NoSuchId, landingPageId |-> NoSuchId], now), o)
    \/ \E o \in Orgs, c \in IdsOf(mem.campaigns), x \in IdsOf(mem.targets) :
          Call(createCampaignResult(mem, o, [campaignId |-> c, targetId |-> x], now), o)
    \/ \E id \in IdsOf(mem.campaigns) : Call(deleteCampaign(mem, id), NoSuchId)

StoreSpec == StoreInit /\ [][StoreNext]_vars

\* ---------------------------------------------------------------- the store's timed system
\* The store's methods with a clock: new Date() has millisecond resolution,
\* so two calls can read the same time.  The stocked rows were written at
\* time 0, before the clock's first value here.

Emails == { <<"a", "@", "x">>, <<"c", "@", "z">> }

TimedInit ==
    /\ mem \in {Constructed, Stocked}
    /\ now = 1
    /\ origin = OriginOf(mem)
    /\ made = 0
    /\ parsed = << >>
    /\ db = DbConstructed
    /\ running = << >>

\* the clock moves on by a millisecond
Tick ==
    /\ now < MaxNow
    /\ now' = now + 1
    /\ UNCHANGED <<mem, origin, made, parsed, db, running>>

\* one call of a method of the store at the time now: r is what it yields
CallAt(r, organizationId) ==
    /\ made < MaxMade
    /\ mem' = r.store
    /\ origin' = Stamp(r.store, organizationId)
    /\ made' = made + 1
    /\ UNCHANGED <<now, parsed, db, running>>

\* partials: a name, a partial that carries updatedAt itself, and one that
\* carries an id
Renames == { [name |-> "n2"], [updatedAt |-> 0], [id |-> NoSuchId] }

TimedNext ==
    \/ Tick
    \/ \E o \in Orgs, e \in Emails :
          CallAt(createUser(mem, [email |-> e, organizationId |-> o], now), o)
    \/ \E o \in Orgs : CallAt(createGroup(mem, o, [name |-> "n1"], now), o)
    \/ \E id \in IdsOf(mem.users), e \in Emails :
          CallAt(updateUser(mem, id, [email |-> e], now), NoSuchId)
    \/ \E id \in IdsOf(mem.groups), data \in Renames :
          CallAt(updateGroup(mem, id, data, now), NoSuchId)
    \/ \E id \in IdsOf(mem.targets), position \in {"Dev", "Ops"} :
          CallAt(updateTarget(mem, id, [position |-> position], now), NoSuchId)
    \/ \E id \in IdsOf(mem.smtpProfiles), data \in Renames :
          CallAt(updateSmtpProfile(mem, id, data, now), NoSuchId)
    \/ \E id \in IdsOf(mem.emailTemplates), data \in Renames :
          CallAt(updateEmailTemplate(mem, id, data, now), NoSuchId)
    \/ \E id \in IdsOf(mem.landingPages), data \in Renames :
          CallAt(updateLandingPage(mem, id, data, now), NoSuchId)
    \/ \E id \in IdsOf(mem.campaigns), status \in {"Active", "Completed"} :
          CallAt(updateCampaign(mem, id, [status |-> status], now), NoSuchId)
    \/ \E id \in IdsOf(mem.campaignResults) :
          CallAt(updateCampaignResult(mem, id, [sent |-> TRUE, updatedAt |-> 0], now),
                 NoSuchId)

TimedSpec == TimedInit /\ [][TimedNext]_vars

\* ---------------------------------------------------------------- the import of one row
\* The import route given a file of one data row, for every row of a family
\* of rows: each column there or not, under either spelling and in mixed
\* case, with a column the import does not know and an empty position.

\* no column, or one column under one of the headers with one of the values
Column(headers, values) ==
    { << >> } \cup { << <<h, v>> >> : h \in headers, v \in values }

HeaderRows ==
    { x \o f \o l \o e \o p :
        x \in Column({ <<"d", "e", "p", "t">>, <<"n", "a", "m", "e">> }, {"Ops"}),
        f \in Column({ <<"F", "i", "r", "s", "t", "N", "a", "m", "e">>,
                       <<"F", "I", "R", "S", "T", "_", "N", "A", "M", "E">> }, {"A"}),
        l \in Column({ K_lastname, <<"L", "a", "s", "t", "_", "n", "a", "m", "e">> },
                     {"X"}),
        e \in Column({ <<"E", "m", "a", "i", "l">> }, {"a@x"}),
        p \in Column({ <<"P", "O", "S", "I", "T", "I", "O", "N">>, K_title },
                     {"Dev", ""}) }
    \cup RowSamples

ImportInit ==
    /\ mem \in {Registered, Prepared}
    /\ now = 0
    /\ origin = OriginOf(mem)
    /\ made = 0
    /\ parsed \in HeaderRows
    /\ db = DbConstructed
    /\ running = << >>

\* one import request of the session u for the group id, with the row at hand
PostImportOne(u, id) ==
    LET h == POST_groups_id_import(
                 mem, now, u, id,
                 [missing |-> FALSE, errors |-> FALSE, data |-> << parsed >>])
    IN  /\ made < MaxMade
        /\ mem' = h.store
        /\ origin' = Stamp(h.store, mem.users[u].organizationId)
        /\ made' = made + 1
        /\ UNCHANGED <<now, parsed, db, running>>

ImportNext ==
    \E u \in DOMAIN mem.users, id \in IdsOf(mem.groups) : PostImportOne(u, id)

ImportSpec == ImportInit /\ [][ImportNext]_vars

\* ---------------------------------------------------------------- the two stores in step
\* MemStorage and DatabaseStorage given the same calls with the same
\* arguments.  They start as constructed, or after the script that stocks the
\* in-memory store, run against each with the ids the store handed out.

DbStocked ==
    LET refs(g) == [name |-> "n1", targetGroupId |-> g, smtpProfileId |-> 1,
                    emailTemplateId |-> 1, landingPageId |-> 1]
        a == DatabaseStorage_createOrganization(DbConstructed, [name |-> "org1"], 0).store
        b == DatabaseStorage_createUser(
                 a, [email |-> <<"a", "@", "x">>, organizationId |-> 1], 0).store
        c == DatabaseStorage_createOrganization(b, [name |-> "org2"], 0).store
        e == DatabaseStorage_createUser(
                 c, [email |-> <<"b", "@", "y">>, organizationId |-> 2], 0).store
        f == DatabaseStorage_createGroup(e, 1, [name |-> "n1"], 0).store
        g == DatabaseStorage_createTarget(
                 f, 1, 1, [firstName |-> "A", lastName |-> "X", email |-> "a@x"], 0).store
        h == DatabaseStorage_createSmtpProfile(g, 1, [name |-> "n1"], 0).store
        i == DatabaseStorage_createEmailTemplate(h, 1, 1, [name |-> "n1"], 0).store
        j == DatabaseStorage_createLandingPage(i, 1, 1, [name |-> "n1"], 0).store
        k == DatabaseStorage_createGroup(j, 2, [name |-> "n1"], 0).store
        l == DatabaseStorage_createTarget(
                 k, 2, 2, [firstName |-> "B", lastName |-> "Y", email |-> "b@y"], 0).store
        m == DatabaseStorage_createCampaign(l, 1, 1, refs(1), 0).store
        n == DatabaseStorage_createCampaign(m, 2, 2, refs(2), 0).store
        p == DatabaseStorage_createCampaignResult(
                 n, 1, [campaignId |-> 1, targetId |-> 1], 0).store
        q == DatabaseStorage_createCampaignResult(
                 p, 1, [campaignId |-> 1, targetId |-> 2], 0).store
    IN  DatabaseStorage_createCampaignResult(
            q, 2, [campaignId |-> 2, targetId |-> 2], 0).store

EquivInit ==
    /\ \E both \in { <<Constructed, DbConstructed>>, <<Stocked, DbStocked>> } :
           mem = both[1] /\ db = both[2]
    /\ now = 0
    /\ origin = OriginOf(mem)
    /\ made = 0
    /\ parsed = << >>
    /\ running = << >>

\* one call made of both stores: m and d are what they yield
Both(m, d) ==
    /\ made < MaxMade
    /\ mem' = m.store
    /\ db' = d.store
    /\ origin' = Stamp(m.store, NoSuchId)
    /\ made' = made + 1
    /\ UNCHANGED <<now, parsed, running>>

EquivNext ==
    \/ \E organization \in { [name |-> "org1"], [name |-> "org3"] } :
          Both(createOrganization(mem, organization, now),
               DatabaseStorage_createOrganization(db, organization, now))
    \/ \E e \in Emails \cup { <<"A", "@", "x">> }, o \in IdsOf(mem.organizations) :
          Both(createUser(mem, [email |-> e, organizationId |-> o], now),
               DatabaseStorage_createUser(db, [email |-> e, organizationId |-> o], now))
    \/ \E o \in IdsOf(mem.organizations),
          group \in { [name |-> "n1"] }
                    \cup { [name |-> "n1", description |-> x] : x \in {"", "d"} } :
          Both(createGroup(mem, o, group, now),
               DatabaseStorage_createGroup(db, o, group, now))
    \/ \E o \in DOMAIN mem.organizations,
          g \in IdsOf(mem.groups) \cup DOMAIN db.groups.rows,
          target \in { [firstName |-> "A", lastName |-> "X", email |-> "a@x"] }
                     \cup { [firstName |-> "A", lastName |-> "X", email |-> "a@x",
                             position |-> p] : p \in {"", "Dev"} } :
          Both(createTarget(mem, o, g, target, now),
               DatabaseStorage_createTarget(db, o, g, target, now))
    \/ \E o \in DOMAIN mem.organizations, profile \in NamedBodies \ {EmptyObject} :
          Both(createSmtpProfile(mem, o, profile, now),
               DatabaseStorage_createSmtpProfile(db, o, profile, now))
    \/ \E o \in DOMAIN mem.organizations, u \in IdsOf(mem.users),
          template \in NamedBodies \ {EmptyObject} :
          Both(createEmailTemplate(mem, o, u, template, now),
               DatabaseStorage_createEmailTemplate(db, o, u, template, now))
    \/ \E o \in DOMAIN mem.organizations, u \in IdsOf(mem.users),
          page \in { [name |-> "n1"], [name |-> "n1", description |-> ""] } :
          Both(createLandingPage(mem, o, u, page, now),
               DatabaseStorage_createLandingPage(db, o, u, page, now))
    \/ \E o \in DOMAIN mem.organizations, u \in DOMAIN mem.users,
          g \in DOMAIN mem.groups \cup DOMAIN db.groups.rows :
          LET campaign == [name |-> "n1", targetGroupId |-> g, smtpProfileId |-> 1,
                           emailTemplateId |-> 1, landingPageId |-> 1]
          IN  Both(createCampaign(mem, o, u, campaign, now),
                   DatabaseStorage_createCampaign(db, o, u, campaign, now))
    \/ \E o \in DOMAIN mem.organizations, c \in DOMAIN mem.campaigns,
          x \in DOMAIN mem.targets :
          \E result \in { [campaignId |-> c, targetId |-> x],
                          [campaignId |-> c, targetId |-> x, sent |-> TRUE] } :
          Both(createCampaignResult(mem, o, result, now),
               DatabaseStorage_createCampaignResult(db, o, result, now))
    \/ \E id \in IdsOf(mem.users) \cup DOMAIN db.users.rows :
          Both(deleteUser(mem, id), DatabaseStorage_delete(db, "users", id))
    \/ \E id \in IdsOf(mem.groups) \cup DOMAIN db.groups.rows :
          Both(deleteGroup(mem, id), DatabaseStorage_delete(db, "groups", id))
    \/ \E id \in IdsOf(mem.targets) \cup DOMAIN db.targets.rows :
          Both(deleteTarget(mem, id), DatabaseStorage_delete(db, "targets", id))
    \/ \E id \in IdsOf(mem.smtpProfiles) \cup DOMAIN db.smtpProfiles.rows :
          Both(deleteSmtpProfile(mem, id),
               DatabaseStorage_delete(db, "smtpProfiles", id))
    \/ \E id \in IdsOf(mem.emailTemplates) \cup DOMAIN db.emailTemplates.rows :
          Both(deleteEmailTemplate(mem, id),
               DatabaseStorage_delete(db, "emailTemplates", id))
    \/ \E id \in IdsOf(mem.landingPages) \cup DOMAIN db.landingPages.rows :
          Both(deleteLandingPage(mem, id),
               DatabaseStorage_delete(db, "landingPages", id))
    \/ \E id \in IdsOf(mem.campaigns) \cup DOMAIN db.campaigns.rows :
          Both(deleteCampaign(mem, id), DatabaseStorage_delete(db, "campaigns", id))

EquivSpec == EquivInit /\ [][EquivNext]_vars

\* ---------------------------------------------------------------- the routes side by side
\* Two requests whose handlers run side by side.  A handler runs from one
\* await to the next without a break; the store method it awaits has run
\* when the handler is suspended, and what it returned (got) reaches the
\* handler when it runs on.  In between, the other handler may run.

\* the handler ends with a response
Respond(s, req, status, message, body) ==
    [ store |-> s,
      req |-> [req EXCEPT !.pc = "done", !.resp = Response(status, message, body)] ]

\* the handler is suspended at await call, which has left the store s and
\* returned value
Await(s, req, call, value) ==
    [store |-> s, req |-> [req EXCEPT !.pc = call, !.got = value]]

POST_campaigns_await(s, t, req) ==
    LET user == s.users[req.u]
        validated == insertCampaignSchema(req.body)
        validatedData == validated.data
    IN  CASE req.pc = "arrived" ->
                IF ~validated.success
                THEN Respond(s, req, 400, "Validation error", validated.issues)
                ELSE Await(s, req, "getGroup",
                           getGroup(s, validatedData.targetGroupId))
          [] req.pc = "getGroup" ->
                IF Foreign(req.got, user.organizationId)
                THEN Respond(s, req, 403, "Access denied: Invalid target group", NoBody)
                ELSE Await(s, req, "getSmtpProfile",
                           getSmtpProfile(s, validatedData.smtpProfileId))
          [] req.pc = "getSmtpProfile" ->
                IF Foreign(req.got, user.organizationId)
                THEN Respond(s, req, 403, "Access denied: Invalid SMTP profile", NoBody)
                ELSE Await(s, req, "getEmailTemplate",
                           getEmailTemplate(s, validatedData.emailTemplateId))
          [] req.pc = "getEmailTemplate" ->
                IF Foreign(req.got, user.organizationId)
                THEN Respond(s, req, 403, "Access denied: Invalid email template",
                             NoBody)
                ELSE Await(s, req, "getLandingPage",
                           getLandingPage(s, validatedData.landingPageId))
          [] req.pc = "getLandingPage" ->
                IF Foreign(req.got, user.organizationId)
                THEN Respond(s, req, 403, "Access denied: Invalid landing page", NoBody)
                ELSE LET c == createCampaign(s, user.organizationId, user.id,
                                             validatedData, t)
                     IN  Await(c.store, req, "createCampaign", c.ret)
          [] req.pc = "createCampaign" ->
                Respond(s, req, 201, "", req.got)

DELETE_groups_id_await(s, t, req) ==
    CASE req.pc = "arrived" ->
            Await(s, req, "getGroup", getGroup(s, req.groupId))
      [] req.pc = "getGroup" ->
            IF req.got = Undefined
            THEN Respond(s, req, 404, "Group not found", NoBody)
            ELSE IF req.got.organizationId # s.users[req.u].organizationId
            THEN Respond(s, req, 403, "Access denied", NoBody)
            ELSE LET c == deleteGroup(s, req.groupId)
                 IN  Await(c.store, req, "deleteGroup", c.ret)
      [] req.pc = "deleteGroup" ->
            Respond(s, req, 204, "", NoBody)

\* the for-loop over results.data from the row at index on, up to its next
\* await: a row that fails is recorded and the loop goes on; for the first
\* row that passes createTarget is called and the handler is suspended
RECURSIVE ImportToAwait(_, _, _, _, _, _)
ImportToAwait(acc, organizationId, groupId, data, index, t) ==
    IF index >= Len(data) THEN [acc |-> acc, index |-> index, suspended |-> FALSE]
    ELSE LET next == ImportRow(acc, organizationId, groupId, data[index + 1], index, t)
         IN  IF next.store # acc.store
             THEN [acc |-> next, index |-> index + 1, suspended |-> TRUE]
             ELSE ImportToAwait(next, organizationId, groupId, data, index + 1, t)

\* req.importedTargets, req.errors and req.index are the handler's locals
POST_groups_id_import_await(s, t, req) ==
    LET Loop ==
            LET run == ImportToAwait([store |-> s,
                                      importedTargets |-> req.importedTargets,
                                      errors |-> req.errors],
                                     s.users[req.u].organizationId, req.groupId,
                                     req.file.data, req.index, t)
                locals == [req EXCEPT !.importedTargets = run.acc.importedTargets,
                                      !.errors = run.acc.errors,
                                      !.index = run.index]
            IN  IF run.suspended
                THEN Await(run.acc.store, locals, "createTarget", Undefined)
                ELSE Respond(run.acc.store, locals, 200, "",
                             IF Len(run.acc.errors) > 0
                             THEN [ imported |-> Len(run.acc.importedTargets),
                                    failed |-> Len(run.acc.errors),
                                    errors |-> run.acc.errors ]
                             ELSE [ imported |-> Len(run.acc.importedTargets),
                                    failed |-> Len(run.acc.errors) ])
    IN  CASE req.pc = "arrived" ->
                Await(s, req, "getGroup", getGroup(s, req.groupId))
          [] req.pc = "getGroup" ->
                IF req.got = Undefined
                THEN Respond(s, req, 404, "Group not found", NoBody)
                ELSE IF req.got.organizationId # s.users[req.u].organizationId
                THEN Respond(s, req, 403, "Access denied", NoBody)
                ELSE IF req.file.missing
                THEN Respond(s, req, 400, "No file uploaded", NoBody)
                ELSE IF req.file.errors
                THEN Respond(s, req, 400, "CSV parsing error", NoBody)
                ELSE Loop
          [] req.pc = "createTarget" -> Loop

\* a request as it arrives, with the inputs of its route
Arrived(inputs) ==
    inputs @@ [pc |-> "arrived", got |-> Undefined, resp |-> Undefined]

\* a DELETE /api/groups/:id has arrived together with a POST /api/campaigns
\* or a POST /api/groups/:id/import
AsyncInit ==
    /\ mem = Prepared
    /\ now = 0
    /\ origin = OriginOf(mem)
    /\ made = 0
    /\ parsed = << >>
    /\ db = DbConstructed
    /\ \E u \in DOMAIN mem.users, id \in IdsOf(mem.groups) :
          LET deletion == Arrived([u |-> u, groupId |-> id])
          IN  \/ \E v \in DOMAIN mem.users, body \in CampaignBodies(mem) :
                    running = [ DELETE_groups_id |-> deletion,
                                POST_campaigns |-> Arrived([u |-> v, body |-> body]) ]
              \/ \E v \in DOMAIN mem.users, g \in IdsOf(mem.groups), file \in Files :
                    running = [ DELETE_groups_id |-> deletion,
                                POST_groups_id_import |->
                                    Arrived([u |-> v, groupId |-> g, file |-> file,
                                             importedTargets |-> << >>,
                                             errors |-> << >>, index |-> 0]) ]

\* the handler of the request route runs on to its next await or to its
\* response: h is what this run yields
Resume(route, h) ==
    /\ mem' = h.store
    /\ running' = [running EXCEPT ![route] = h.req]
    /\ origin' = Stamp(h.store, mem.users[running[route].u].organizationId)
    /\ made' = made + (h.store.currentId - mem.currentId)
    /\ UNCHANGED <<now, parsed, db>>

\* the requests that have arrived and are not answered yet
Pending == { route \in DOMAIN running : running[route].pc # "done" }

AsyncNext ==
    \/ /\ "POST_campaigns" \in Pending
       /\ Resume("POST_campaigns",
                 POST_campaigns_await(mem, now, running.POST_campaigns))
    \/ /\ "DELETE_groups_id" \in Pending
       /\ Resume("DELETE_groups_id",
                 DELETE_groups_id_await(mem, now, running.DELETE_groups_id))
    \/ /\ "POST_groups_id_import" \in Pending
       /\ Resume("POST_groups_id_import",
                 POST_groups_id_import_await(mem, now, running.POST_groups_id_import))

AsyncSpec == AsyncInit /\ [][AsyncNext]_vars

\* ---------------------------------------------------------------- the update routes
\* The two PUT routes with a clock, on the stocked store.

\* bodies of a PUT: a name; no name; and the schema's fields next to fields
\* the schema does not have
PutBodies ==
    { [name |-> "n2"],
      [description |-> "d"],
      [name |-> "n3", description |-> "d", textContent |-> "t", id |-> NoSuchId,
       organizationId |-> NoSuchId, createdById |-> NoSuchId,
       createdAt |-> 9, updatedAt |-> 9] }

PutInit ==
    /\ mem = Stocked
    /\ now = 1
    /\ origin = OriginOf(mem)
    /\ made = 0
    /\ parsed = << >>
    /\ db = DbConstructed
    /\ running = << >>

PutNext ==
    \/ Tick
    \/ \E u \in DOMAIN mem.users, id \in IdsOf(mem.groups), body \in PutBodies :
          Serve(u, PUT_groups_id(mem, now, u, id, body))
    \/ \E u \in DOMAIN mem.users, id \in IdsOf(mem.emailTemplates),
          body \in PutBodies :
          Serve(u, PUT_email_templates_id(mem, now, u, id, body))

PutSpec == PutInit /\ [][PutNext]_vars

\* ---------------------------------------------------------------- properties

\* every row of rows carries organizationId and was created under it
OwnRowsOnly(rows, organizationId) ==
    \A i \in DOMAIN rows :
        /\ rows[i].organizationId = organizationId
        /\ origin[rows[i].id] = organizationId

\* C1: whatever listUsers, listGroups, listSmtpProfiles, listEmailTemplates,
\* listLandingPages or listCampaigns returns for an organization was created
\* under that organization, and GET /api/groups/:id/targets answers a session
\* only with targets created under the session's organization.
TenantIsolation ==
    /\ \A o \in Orgs :
          /\ OwnRowsOnly(listUsers(mem, o), o)
          /\ LET gs == listGroups(mem, o)
             IN  OwnRowsOnly([i \in DOMAIN gs |-> gs[i].group], o)
          /\ OwnRowsOnly(listSmtpProfiles(mem, o), o)
          /\ OwnRowsOnly(listEmailTemplates(mem, o), o)
          /\ OwnRowsOnly(listLandingPages(mem, o), o)
          /\ OwnRowsOnly(listCampaigns(mem, o), o)
    /\ \A u \in DOMAIN mem.users, g \in IdsOf(mem.groups) :
          LET h == GET_groups_id_targets(mem, now, u, g)
          IN  h.resp.status = 200 =>
                  OwnRowsOnly(h.resp.body, mem.users[u].organizationId)

\* both organizations hold a group with a target, and a session is answered
\* with the targets of its group
TenantIsolationSeen ==
    /\ \A o \in Orgs : \E x \in DOMAIN mem.targets : origin[x] = o
    /\ \A o \in Orgs : Len(listGroups(mem, o)) > 0
    /\ \E u \in DOMAIN mem.users, g \in DOMAIN mem.groups :
          LET h == GET_groups_id_targets(mem, now, u, g)
          IN  h.resp.status = 200 /\ Len(h.resp.body) > 0

\* the four references of a campaign body, with the Map each is looked up in
CampaignRefs(s) ==
    { <<"targetGroupId", s.groups>>, <<"smtpProfileId", s.smtpProfiles>>,
      <<"emailTemplateId", s.emailTemplates>>, <<"landingPageId", s.landingPages>> }

\* some reference of body is absent from its Map or held by another organization
SomeRefInvalid(s, organizationId, body) ==
    \E r \in CampaignRefs(s) :
        \/ body[r[1]] \notin DOMAIN r[2]
        \/ r[2][body[r[1]]].organizationId # organizationId

CampaignFields ==
    {"name", "targetGroupId", "smtpProfileId", "emailTemplateId", "landingPageId"}

\* C2, as stated: POST /api/campaigns with any reference absent or foreign is
\* answered 403 and leaves the store as it was.
InvalidRefAlways403 ==
    \A u \in DOMAIN mem.users, body \in CampaignBodies(mem) :
        SomeRefInvalid(mem, mem.users[u].organizationId, body) =>
            LET h == POST_campaigns(mem, now, u, body)
            IN  h.resp.status = 403 /\ h.store = mem

\* C2: POST /api/campaigns with any reference absent or foreign leaves the
\* store as it was; it is answered 403 when the body carries every required
\* field, and 400 when it does not (the body is validated first).
InvalidRefRejected ==
    \A u \in DOMAIN mem.users, body \in CampaignBodies(mem) :
        SomeRefInvalid(mem, mem.users[u].organizationId, body) =>
            LET h == POST_campaigns(mem, now, u, body)
            IN  /\ h.store = mem
                /\ h.resp.status =
                       IF CampaignFields \subseteq DOMAIN body THEN 403 ELSE 400

\* a session posts a complete body whose group, SMTP profile and email
\* template are its own and whose landing page is invalid, and another whose
\* only invalid reference is a group of the other organization
InvalidRefRejectedSeen ==
    \E u \in DOMAIN mem.users, b1, b2 \in CampaignBodies(mem) :
        LET o == mem.users[u].organizationId
        IN  /\ CampaignFields \subseteq DOMAIN b1
            /\ CampaignFields \subseteq DOMAIN b2
            /\ ~SomeRefInvalid(mem, o, [b1 EXCEPT !.landingPageId = b2.landingPageId])
            /\ b1.landingPageId \notin DOMAIN mem.landingPages
            /\ ~SomeRefInvalid(mem, o, [b2 EXCEPT !.targetGroupId = b1.targetGroupId])
            /\ b2.targetGroupId \in DOMAIN mem.groups
            /\ mem.groups[b2.targetGroupId].organizationId # o
            /\ POST_campaigns(mem, now, u, b1).resp.status = 403
            /\ POST_campaigns(mem, now, u, b2).resp.status = 403

\* C3: every target whose group is in the store has the group's
\* organizationId, and every campaign has the organizationId of each of its
\* group, SMTP profile, email template and landing page that is in the store.
SameOrganization ==
    /\ \A x \in DOMAIN mem.targets :
          LET group == getGroup(mem, mem.targets[x].groupId)
          IN  group # Undefined =>
                  group.organizationId = mem.targets[x].organizationId
    /\ \A c \in DOMAIN mem.campaigns, r \in CampaignRefs(mem) :
          mem.campaigns[c][r[1]] \in DOMAIN r[2] =>
              r[2][mem.campaigns[c][r[1]]].organizationId =
                  mem.campaigns[c].organizationId

\* a campaign whose four references are in the store, next to targets and
\* groups of both organizations
SameOrganizationSeen ==
    /\ \E c \in DOMAIN mem.campaigns : \A r \in CampaignRefs(mem) :
          mem.campaigns[c][r[1]] \in DOMAIN r[2]
    /\ \E x \in DOMAIN mem.targets : mem.targets[x].groupId \in DOMAIN mem.groups
    /\ \A o \in Orgs : Len(listGroups(mem, o)) > 0

\* C4, as stated: a group, SMTP profile, email template or landing page that
\* a campaign refers to stays in the store, so each of the four references
\* of every campaign is in the store.
ReferencedEntitiesKept ==
    \A c \in DOMAIN mem.campaigns, r \in CampaignRefs(mem) :
        mem.campaigns[c][r[1]] \in DOMAIN r[2]

\* C5: deleteGroup(g) leaves no target with groupId g (getTarget finds none
\* of the former members) and leaves every other target as it was.
GroupDeleteCascades ==
    \A g \in IdsOf(mem.groups) :
        LET after == deleteGroup(mem, g).store
        IN  /\ listTargets(after, g) = << >>
            /\ \A x \in DOMAIN mem.targets :
                  getTarget(after, x) =
                      IF mem.targets[x].groupId = g THEN Undefined
                      ELSE mem.targets[x]
            /\ DOMAIN after.targets \subseteq DOMAIN mem.targets

\* a group of the stocked store has been deleted: its targets are gone, the
\* other group and its targets are there
GroupDeleteCascadesSeen ==
    \E g \in DOMAIN Stocked.groups :
        /\ g \notin DOMAIN mem.groups
        /\ \E x \in DOMAIN Stocked.targets : Stocked.targets[x].groupId = g
        /\ \A x \in DOMAIN Stocked.targets :
              IF Stocked.targets[x].groupId = g
              THEN x \notin DOMAIN mem.targets
              ELSE getTarget(mem, x) = Stocked.targets[x]
        /\ \E x \in DOMAIN mem.targets : mem.targets[x].groupId \in DOMAIN mem.groups

\* C6: deleteCampaign(c) leaves no campaign result with campaignId c and
\* leaves the results of every other campaign as they were.
CampaignDeleteCascades ==
    \A c \in IdsOf(mem.campaigns) :
        LET after == deleteCampaign(mem, c).store
        IN  /\ listCampaignResults(after, c) = << >>
            /\ \A x \in DOMAIN mem.campaignResults :
                  getCampaignResult(after, x) =
                      IF mem.campaignResults[x].campaignId = c THEN Undefined
                      ELSE mem.campaignResults[x]
            /\ DOMAIN after.campaignResults \subseteq DOMAIN mem.campaignResults

\* a campaign of the stocked store has been deleted: its results are gone,
\* the other campaign and its results are there
CampaignDeleteCascadesSeen ==
    \E c \in DOMAIN Stocked.campaigns :
        /\ c \notin DOMAIN mem.campaigns
        /\ \E x \in DOMAIN Stocked.campaignResults :
              Stocked.campaignResults[x].campaignId = c
        /\ \A x \in DOMAIN Stocked.campaignResults :
              IF Stocked.campaignResults[x].campaignId = c
              THEN x \notin DOMAIN mem.campaignResults
              ELSE getCampaignResult(mem, x) = Stocked.campaignResults[x]
        /\ \E x \in DOMAIN mem.campaignResults :
              mem.campaignResults[x].campaignId \in DOMAIN mem.campaigns

\* the lower-case column names of a parsed row
RowColumns(row) == { toLowerCase(row[i][1]) : i \in DOMAIN row }

\* the row has a first-name, a last-name and an email column
RowComplete(row) ==
    LET columns == RowColumns(row)
    IN  /\ columns \cap {K_firstname, K_first_name} # {}
        /\ columns \cap {K_lastname, K_last_name} # {}
        /\ K_email \in columns

\* the value of the last column of row named by one of names
ColumnValue(row, names) ==
    LET at == {i \in DOMAIN row : toLowerCase(row[i][1]) \in names}
    IN  row[CHOOSE i \in at : \A j \in at : j <= i][2]

\* the import requests that reach the loop over the rows: the session owns
\* the group, and the file is there and parsed without errors
Imports ==
    { i \in (DOMAIN mem.users) \X (DOMAIN mem.groups) \X Files :
        /\ mem.groups[i[2]].organizationId = mem.users[i[1]].organizationId
        /\ ~i[3].missing /\ ~i[3].errors }

ErrorsOf(body) == IF "errors" \in DOMAIN body THEN body.errors ELSE << >>

ImportCounts ==
    \A i \in Imports :
        LET h == POST_groups_id_import(mem, now, i[1], i[2], i[3])
            data == i[3].data
            body == h.resp.body
            added == (DOMAIN h.store.targets) \ (DOMAIN mem.targets)
        IN  /\ h.resp.status = 200
            /\ body.imported + body.failed = Len(data)
            /\ body.imported = Cardinality(added)
            /\ \A x \in added :
                  /\ h.store.targets[x].groupId = i[2]
                  /\ h.store.targets[x].organizationId = mem.users[i[1]].organizationId
            /\ \A x \in DOMAIN mem.targets : getTarget(h.store, x) = mem.targets[x]
            /\ body.failed = Cardinality({j \in 1..Len(data) : ~RowComplete(data[j])})
            /\ ("errors" \in DOMAIN body) <=> (body.failed > 0)
            /\ Len(ErrorsOf(body)) = body.failed

\* an import of two rows answered with imported = 1, failed = 1 and errors
ImportCountsSeen ==
    \E i \in Imports :
        LET body == POST_groups_id_import(mem, now, i[1], i[2], i[3]).resp.body
        IN  /\ Len(i[3].data) = 2
            /\ body.imported = 1 /\ body.failed = 1
            /\ "errors" \in DOMAIN body

\* C9: when the parser reports an error, the import is answered 400 and the
\* store is as it was before the request.
ParserErrorImportsNothing ==
    \A u \in DOMAIN mem.users, g \in DOMAIN mem.groups, file \in Files :
        (/\ mem.groups[g].organizationId = mem.users[u].organizationId
         /\ ~file.missing /\ file.errors) =>
            LET h == POST_groups_id_import(mem, now, u, g, file)
            IN  /\ h.resp.status = 400
                /\ h.resp.message = "CSV parsing error"
                /\ h.store = mem

\* the parser reports an error for a file with a complete row, and the
\* import is answered 400
ParserErrorImportsNothingSeen ==
    \E u \in DOMAIN mem.users, g \in DOMAIN mem.groups, file \in Files :
        /\ mem.groups[g].organizationId = mem.users[u].organizationId
        /\ ~file.missing /\ file.errors
        /\ \E j \in DOMAIN file.data : RowComplete(file.data[j])
        /\ POST_groups_id_import(mem, now, u, g, file).resp.status = 400

\* the group of an import is not in the store, or belongs to another organization
NotOwnGroup(u, g) ==
    g \notin DOMAIN mem.groups
        \/ mem.groups[g].organizationId # mem.users[u].organizationId

\* C10, as stated: an import into a group that is not in the store or
\* belongs to another organization is answered 403 and creates no target.
ImportElsewhereAlways403 ==
    \A u \in DOMAIN mem.users, g \in IdsOf(mem.groups), file \in Files :
        NotOwnGroup(u, g) =>
            LET h == POST_groups_id_import(mem, now, u, g, file)
            IN  h.resp.status = 403 /\ h.store.targets = mem.targets

\* C10: an import into a group that is not in the store is answered 404, one
\* into a group of another organization 403, and neither creates a target.
ImportElsewhereRejected ==
    \A u \in DOMAIN mem.users, g \in IdsOf(mem.groups), file \in Files :
        NotOwnGroup(u, g) =>
            LET h == POST_groups_id_import(mem, now, u, g, file)
            IN  /\ h.resp.status = IF g \in DOMAIN mem.groups THEN 403 ELSE 404
                /\ h.store = mem

\* a file with a complete row is sent for a group of the other organization
\* and answered 403, and for a group that is not there and answered 404
ImportElsewhereRejectedSeen ==
    \E u \in DOMAIN mem.users, g \in DOMAIN mem.groups, file \in Files :
        /\ NotOwnGroup(u, g)
        /\ ~file.missing /\ ~file.errors
        /\ \E j \in DOMAIN file.data : RowComplete(file.data[j])
        /\ POST_groups_id_import(mem, now, u, g, file).resp.status = 403
        /\ POST_groups_id_import(mem, now, u, NoSuchId, file).resp.status = 404

\* C12, as stated: every update that finds its row leaves updatedAt strictly
\* greater than it was, whatever the partial carries and however soon after
\* the previous write it runs.
UpdateAdvancesUpdatedAt ==
    /\ \A id \in DOMAIN mem.users, e \in Emails :
          updateUser(mem, id, [email |-> e], now).ret.updatedAt
              > mem.users[id].updatedAt
    /\ \A id \in DOMAIN mem.groups, data \in Renames :
          updateGroup(mem, id, data, now).ret.updatedAt > mem.groups[id].updatedAt
    /\ \A id \in DOMAIN mem.targets :
          updateTarget(mem, id, [position |-> "Dev"], now).ret.updatedAt
              > mem.targets[id].updatedAt
    /\ \A id \in DOMAIN mem.smtpProfiles, data \in Renames :
          updateSmtpProfile(mem, id, data, now).ret.updatedAt
              > mem.smtpProfiles[id].updatedAt
    /\ \A id \in DOMAIN mem.emailTemplates, data \in Renames :
          updateEmailTemplate(mem, id, data, now).ret.updatedAt
              > mem.emailTemplates[id].updatedAt
    /\ \A id \in DOMAIN mem.landingPages, data \in Renames :
          updateLandingPage(mem, id, data, now).ret.updatedAt
              > mem.landingPages[id].updatedAt
    /\ \A id \in DOMAIN mem.campaigns :
          updateCampaign(mem, id, [status |-> "Active"], now).ret.updatedAt
              > mem.campaigns[id].updatedAt
    /\ \A id \in DOMAIN mem.campaignResults :
          updateCampaignResult(mem, id, [sent |-> TRUE], now).ret.updatedAt
              > mem.campaignResults[id].updatedAt

\* C16: getDashboardStats(O) counts in activeCampaigns the campaigns of O
\* whose status is Active, in totalUsers the users of O, and returns the
\* same fixed values in its other fields in every state.
DashboardCounts ==
    \A o \in Orgs \cup {NoSuchId} :
        LET stats == getDashboardStats(mem, o)
            active == SelectSeq(listCampaigns(mem, o),
                                LAMBDA campaign : campaign.status = "Active")
        IN  /\ stats.activeCampaigns = Len(active)
            /\ stats.totalUsers = Len(listUsers(mem, o))
            /\ [f \in (DOMAIN stats) \ {"activeCampaigns", "totalUsers"} |-> stats[f]]
                   = [ campaignChange |-> 12, successRate |-> "32.8",
                       successRateChange |-> "5.2", newUsers |-> 3,
                       trainingCompletion |-> 78, trainingCompletionChange |-> 8 ]

\* one organization has an Active campaign, which is counted, and the other
\* a campaign in another status, which is not; each has a user
DashboardCountsSeen ==
    \E o1, o2 \in Orgs :
        /\ o1 # o2
        /\ getDashboardStats(mem, o1).activeCampaigns = 1
        /\ getDashboardStats(mem, o2).activeCampaigns = 0
        /\ Len(listCampaigns(mem, o2)) > 0
        /\ getDashboardStats(mem, o1).totalUsers = 1
        /\ getDashboardStats(mem, o2).totalUsers = 1

\* C18, as stated: no two users in the store have the same email.
EmailUnique ==
    \A x, y \in DOMAIN mem.users :
        mem.users[x].email = mem.users[y].email => x = y

\* C14: listGroups(O) returns each group of organization O exactly once, as
\* it is stored, and no other group, each with targetCount equal to the
\* number of stored targets whose groupId is that group's id.
GroupCounts ==
    \A o \in Orgs :
        LET listed == listGroups(mem, o)
        IN  /\ \A g \in DOMAIN mem.groups :
                   mem.groups[g].organizationId = o =>
                       Cardinality({ i \in 1..Len(listed) : listed[i].group.id = g }) = 1
            /\ \A i \in 1..Len(listed) :
                   /\ listed[i].group.id \in DOMAIN mem.groups
                   /\ listed[i].group = mem.groups[listed[i].group.id]
                   /\ listed[i].group.organizationId = o
                   /\ listed[i].targetCount =
                          Cardinality({ t \in DOMAIN mem.targets :
                                          mem.targets[t].groupId = listed[i].group.id })

\* a target was created in a group that had one: the group is listed with two
GroupCountsSeen ==
    /\ made > 0
    /\ \E o \in Orgs :
           LET listed == listGroups(mem, o)
           IN  \E i \in 1..Len(listed) : listed[i].targetCount = 2

\* what C15 says of a campaign c created for the user u at the time t
Stamped(c, u, t) ==
    /\ c.status = "Draft"
    /\ c.createdById = u.id
    /\ c.organizationId = u.organizationId
    /\ c.createdAt = t
    /\ c.updatedAt = t

\* C15: every campaign a successful createCampaign persists has status
\* Draft, createdById the requesting user's id, organizationId the requesting
\* organization's id and createdAt = updatedAt = the creation time, whatever
\* the body holds: through POST /api/campaigns, and for createCampaign
\* called with the raw body.
CampaignStamped ==
    \A u \in DOMAIN mem.users, body \in CampaignBodies(mem) :
        LET user == mem.users[u]
            r == POST_campaigns(mem, now, u, body)
            c == createCampaign(mem, user.organizationId, user.id,
                                [name |-> "n1"] @@ body, now)
        IN  /\ r.resp.status = 201 =>
                   /\ Stamped(r.resp.body, user, now)
                   /\ r.resp.body.id \notin DOMAIN mem.campaigns
                   /\ getCampaign(r.store, r.resp.body.id) = r.resp.body
            /\ Stamped(c.ret, user, now)
            /\ getCampaign(c.store, c.ret.id) = c.ret

\* a campaign was persisted, and a body carrying status, createdById,
\* organizationId and timestamps of its own is accepted
CampaignStampedSeen ==
    /\ mem.campaigns # EmptyMap
    /\ \A id \in DOMAIN mem.campaigns : mem.campaigns[id].status = "Draft"
    /\ \E u \in DOMAIN mem.users, body \in CampaignBodies(mem) :
           /\ "status" \in DOMAIN body
           /\ body.status # "Draft"
           /\ POST_campaigns(mem, now, u, body).resp.status = 201

\* the handler's result h is 403 Access denied with the store s as it was
Denied(h, s) ==
    /\ h.resp.status = 403
    /\ h.resp.message = "Access denied"
    /\ h.store = s

\* C17: on PUT and DELETE /api/groups/:id, GET and POST
\* /api/groups/:id/targets, POST /api/groups/:id/import and PUT
\* /api/email-templates/:id, a request for a stored resource of another
\* organization than the session's is answered 403 Access denied and leaves
\* the store unchanged, whatever body or file it carries.
OwnershipEnforced ==
    \A u \in DOMAIN mem.users :
        /\ \A g \in DOMAIN mem.groups :
               mem.groups[g].organizationId # mem.users[u].organizationId =>
                   /\ \A body \in GroupBodies :
                          Denied(PUT_groups_id(mem, now, u, g, body), mem)
                   /\ Denied(DELETE_groups_id(mem, now, u, g), mem)
                   /\ Denied(GET_groups_id_targets(mem, now, u, g), mem)
                   /\ \A body \in TargetBodies :
                          Denied(POST_groups_id_targets(mem, now, u, g, body), mem)
                   /\ \A file \in Files :
                          Denied(POST_groups_id_import(mem, now, u, g, file), mem)
        /\ \A e \in DOMAIN mem.emailTemplates :
               mem.emailTemplates[e].organizationId # mem.users[u].organizationId =>
                   \A body \in NamedBodies :
                       Denied(PUT_email_templates_id(mem, now, u, e, body), mem)

\* a session faces a group with a target and an email template of the other
\* organization; its valid rename of the template is denied, and the
\* template's owner's is served
OwnershipEnforcedSeen ==
    \E u \in DOMAIN mem.users, v \in DOMAIN mem.users,
       g \in DOMAIN mem.groups, e \in DOMAIN mem.emailTemplates :
        /\ made > 0
        /\ mem.groups[g].organizationId # mem.users[u].organizationId
        /\ mem.emailTemplates[e].organizationId # mem.users[u].organizationId
        /\ Len(listTargets(mem, g)) > 0
        /\ PUT_email_templates_id(mem, now, u, e, [name |-> "n1"]).resp.status = 403
        /\ PUT_email_templates_id(mem, now, v, e, [name |-> "n1"]).resp.status = 200
        /\ DELETE_groups_id(mem, now, u, g).resp.status = 403
        /\ DELETE_groups_id(mem, now, v, g).resp.status = 204

\* the handler's result h has the given status with the store s as it was
Refused(h, status, s) == h.resp.status = status /\ h.store = s

\* the group g, or the email template e, is stored under the organization of u
OwnGroup(u, g) ==
    g \in DOMAIN mem.groups
        /\ mem.groups[g].organizationId = mem.users[u].organizationId

OwnTemplate(u, e) ==
    e \in DOMAIN mem.emailTemplates
        /\ mem.emailTemplates[e].organizationId = mem.users[u].organizationId

\* C19, as stated: on the eight create and update routes a body that fails
\* its schema is answered 400 with the store unchanged, and a request for a
\* resource id that is not in the store is answered 404 with the store
\* unchanged.
InvalidBodyAlways400 ==
    \A u \in DOMAIN mem.users :
        /\ \A body \in GroupBodies :
               ~insertGroupSchema(body).success =>
                   /\ Refused(POST_groups(mem, now, u, body), 400, mem)
                   /\ \A g \in IdsOf(mem.groups) :
                          Refused(PUT_groups_id(mem, now, u, g, body), 400, mem)
        /\ \A body \in TargetBodies, g \in IdsOf(mem.groups) :
               ~insertTargetSchema(body).success =>
                   Refused(POST_groups_id_targets(mem, now, u, g, body), 400, mem)
        /\ \A body \in NamedBodies :
               /\ ~insertSmtpProfileSchema(body).success =>
                      Refused(POST_smtp_profiles(mem, now, u, body), 400, mem)
               /\ ~insertEmailTemplateSchema(body).success =>
                      /\ Refused(POST_email_templates(mem, now, u, body), 400, mem)
                      /\ \A e \in IdsOf(mem.emailTemplates) :
                             Refused(PUT_email_templates_id(mem, now, u, e, body),
                                     400, mem)
               /\ ~insertLandingPageSchema(body).success =>
                      Refused(POST_landing_pages(mem, now, u, body), 400, mem)
        /\ \A body \in CampaignBodies(mem) :
               ~insertCampaignSchema(body).success =>
                   Refused(POST_campaigns(mem, now, u, body), 400, mem)
        /\ \A body \in GroupBodies :
               insertGroupSchema(body).success =>
                   Refused(PUT_groups_id(mem, now, u, NoSuchId, body), 404, mem)
        /\ \A body \in NamedBodies :
               insertEmailTemplateSchema(body).success =>
                   Refused(PUT_email_templates_id(mem, now, u, NoSuchId, body),
                           404, mem)

\* C19: a body that fails its schema is answered 400 with the store
\* unchanged on the five POST routes without an id, and on PUT
\* /api/groups/:id, POST /api/groups/:id/targets and PUT
\* /api/email-templates/:id when the resource is stored under the session's
\* organization; on every :id route an id that is not in the store is
\* answered 404 with the store unchanged, whatever the body or file.
ErrorsAnswered ==
    \A u \in DOMAIN mem.users :
        /\ \A body \in GroupBodies :
               ~insertGroupSchema(body).success =>
                   /\ Refused(POST_groups(mem, now, u, body), 400, mem)
                   /\ \A g \in IdsOf(mem.groups) :
                          OwnGroup(u, g) =>
                              Refused(PUT_groups_id(mem, now, u, g, body), 400, mem)
        /\ \A body \in TargetBodies, g \in IdsOf(mem.groups) :
               ~insertTargetSchema(body).success /\ OwnGroup(u, g) =>
                   Refused(POST_groups_id_targets(mem, now, u, g, body), 400, mem)
        /\ \A body \in NamedBodies :
               /\ ~insertSmtpProfileSchema(body).success =>
                      Refused(POST_smtp_profiles(mem, now, u, body), 400, mem)
               /\ ~insertEmailTemplateSchema(body).success =>
                      /\ Refused(POST_email_templates(mem, now, u, body), 400, mem)
                      /\ \A e \in IdsOf(mem.emailTemplates) :
                             OwnTemplate(u, e) =>
                                 Refused(PUT_email_templates_id(mem, now, u, e, body),
                                         400, mem)
               /\ ~insertLandingPageSchema(body).success =>
                      Refused(POST_landing_pages(mem, now, u, body), 400, mem)
        /\ \A body \in CampaignBodies(mem) :
               ~insertCampaignSchema(body).success =>
                   Refused(POST_campaigns(mem, now, u, body), 400, mem)
        /\ \A body \in GroupBodies :
               Refused(PUT_groups_id(mem, now, u, NoSuchId, body), 404, mem)
        /\ Refused(DELETE_groups_id(mem, now, u, NoSuchId), 404, mem)
        /\ Refused(GET_groups_id_targets(mem, now, u, NoSuchId), 404, mem)
        /\ \A body \in TargetBodies :
               Refused(POST_groups_id_targets(mem, now, u, NoSuchId, body), 404, mem)
        /\ \A file \in Files :
               Refused(POST_groups_id_import(mem, now, u, NoSuchId, file), 404, mem)
        /\ \A body \in NamedBodies :
               Refused(PUT_email_templates_id(mem, now, u, NoSuchId, body), 404, mem)

\* a session sends a body without a name for its own group and for its own
\* template and is answered 400; the same body for a group of the other
\* organization is answered 403, and a valid body for no group 404
ErrorsAnsweredSeen ==
    \E u \in DOMAIN mem.users, g \in DOMAIN mem.groups, h \in DOMAIN mem.groups,
       e \in DOMAIN mem.emailTemplates :
        /\ made > 0
        /\ OwnGroup(u, g) /\ ~OwnGroup(u, h) /\ OwnTemplate(u, e)
        /\ PUT_groups_id(mem, now, u, g, [description |-> "d"]).resp.status = 400
        /\ PUT_groups_id(mem, now, u, h, [description |-> "d"]).resp.status = 403
        /\ PUT_groups_id(mem, now, u, NoSuchId, [name |-> "n2"]).resp.status = 404
        /\ PUT_email_templates_id(mem, now, u, e, EmptyObject).resp.status = 400

\* the lower-case column names of each field
ColumnsOf(field) ==
    CASE field = "firstName" -> {K_firstname, K_first_name}
      [] field = "lastName" -> {K_lastname, K_last_name}
      [] field = "email" -> {K_email}
      [] field = "position" -> {K_position, K_title}

TargetFields == {"firstName", "lastName", "email", "position"}

\* the row r without the columns the import does not know
Recognized(r) ==
    SelectSeq(r, LAMBDA entry :
        \E field \in TargetFields : toLowerCase(entry[1]) \in ColumnsOf(field))

\* what the import of a file with the one data row r answers, whoever owns
\* a group sends it, and the targets it leaves in the group
ImportOf(u, g, r) ==
    POST_groups_id_import(mem, now, u, g,
                          [missing |-> FALSE, errors |-> FALSE, data |-> << r >>])

\* the normalized row holds the four fields only, each from the last column
\* that maps to it, whatever the case of the header, and the row is imported
\* exactly when it has the three required columns, as it is without the
\* columns the import does not know
HeadersMapped ==
    LET normalizedRow == NormalizeRow(parsed, EmptyObject)
    IN  /\ DOMAIN normalizedRow \subseteq TargetFields
        /\ \A field \in TargetFields :
               IF RowColumns(parsed) \cap ColumnsOf(field) = {}
               THEN field \notin DOMAIN normalizedRow
               ELSE /\ field \in DOMAIN normalizedRow
                    /\ normalizedRow[field] = ColumnValue(parsed, ColumnsOf(field))
        /\ \A u \in DOMAIN mem.users, g \in DOMAIN mem.groups :
               OwnGroup(u, g) =>
                   /\ ImportOf(u, g, parsed).resp.body.imported =
                          IF RowComplete(parsed) THEN 1 ELSE 0
                   /\ ImportOf(u, g, Recognized(parsed)) = ImportOf(u, g, parsed)

\* the target the import of the row at hand creates in the group g of u
Imported(u, g) ==
    LET s == ImportOf(u, g, parsed).store
    IN  s.targets[s.currentId - 1]

\* C20, as stated: headers are mapped case-insensitively to firstName,
\* lastName, email and position and every other column is dropped; the
\* target created from a row carries the values of the mapped columns, and
\* no other column decides whether the row is imported.
HeaderValuesKept ==
    /\ HeadersMapped
    /\ \A u \in DOMAIN mem.users, g \in DOMAIN mem.groups :
           OwnGroup(u, g) /\ RowComplete(parsed) =>
               \A field \in TargetFields :
                   RowColumns(parsed) \cap ColumnsOf(field) # {} =>
                       Imported(u, g)[field] = ColumnValue(parsed, ColumnsOf(field))

\* C20: headers are mapped case-insensitively to firstName, lastName, email
\* and position and every other column is dropped; the target created from
\* a row carries the values of the first-name, last-name and email columns,
\* and the value of the position column unless it is empty or there is
\* none, when the target's position is null; no other column decides
\* whether the row is imported.
HeaderNormalization ==
    /\ HeadersMapped
    /\ \A u \in DOMAIN mem.users, g \in DOMAIN mem.groups :
           OwnGroup(u, g) /\ RowComplete(parsed) =>
               /\ \A field \in {"firstName", "lastName", "email"} :
                      Imported(u, g)[field] = ColumnValue(parsed, ColumnsOf(field))
               /\ Imported(u, g).position =
                      IF RowColumns(parsed) \cap ColumnsOf("position") = {}
                      THEN Null
                      ELSE IF ColumnValue(parsed, ColumnsOf("position")) = ""
                      THEN Null
                      ELSE ColumnValue(parsed, ColumnsOf("position"))
               /\ Imported(u, g).groupId = g

\* a row with upper-case headers, a column the import does not know and an
\* empty position was imported: the group holds its target, without position
HeaderNormalizationSeen ==
    /\ made > 0
    /\ RowComplete(parsed)
    /\ Recognized(parsed) # parsed
    /\ \E i \in DOMAIN parsed :
           /\ toLowerCase(parsed[i][1]) \in ColumnsOf("firstName")
           /\ toLowerCase(parsed[i][1]) # parsed[i][1]
    /\ \E i \in DOMAIN parsed :
           /\ toLowerCase(parsed[i][1]) \in ColumnsOf("position")
           /\ parsed[i][2] = ""
    /\ \E id \in DOMAIN mem.targets :
           /\ id \notin DOMAIN Prepared.targets
           /\ mem.targets[id].firstName = ColumnValue(parsed, ColumnsOf("firstName"))
           /\ mem.targets[id].position = Null

\* the entities with a delete method, by the name of their Map and table
Deletable ==
    {"users", "groups", "targets", "smtpProfiles", "emailTemplates",
     "landingPages", "campaigns"}

MemStorage_delete(s, table, id) ==
    CASE table = "users" -> deleteUser(s, id)
      [] table = "groups" -> deleteGroup(s, id)
      [] table = "targets" -> deleteTarget(s, id)
      [] table = "smtpProfiles" -> deleteSmtpProfile(s, id)
      [] table = "emailTemplates" -> deleteEmailTemplate(s, id)
      [] table = "landingPages" -> deleteLandingPage(s, id)
      [] table = "campaigns" -> deleteCampaign(s, id)

\* the ids either store holds for the entity, and one that neither holds
IdsOfBoth(table) == IdsOf(mem[table]) \cup DOMAIN db[table].rows

\* the relational store returns what the in-memory store returns
Same(m, d) == ~d.thrown /\ m.ret = d.ret

\* C11, as stated: given the same calls, MemStorage and DatabaseStorage
\* return the same booleans from delete, the same entities and ids from
\* create, the same users from getUserByEmail, and list the same rows after
\* the delete of an entity that has dependents.
StoresAgree ==
    /\ \A table \in Deletable : \A id \in IdsOfBoth(table) :
           Same(MemStorage_delete(mem, table, id), DatabaseStorage_delete(db, table, id))
    /\ \A e \in Emails \cup { <<"A", "@", "x">> } :
           getUserByEmail(mem, e) = DatabaseStorage_getUserByEmail(db, e)
    /\ \A o \in DOMAIN mem.organizations :
           /\ Same(createGroup(mem, o, [name |-> "n1"], now),
                   DatabaseStorage_createGroup(db, o, [name |-> "n1"], now))
           /\ \A e \in Emails :
                  Same(createUser(mem, [email |-> e, organizationId |-> o], now),
                       DatabaseStorage_createUser(
                           db, [email |-> e, organizationId |-> o], now))
    /\ \A id \in IdsOfBoth("targets"), c \in IdsOfBoth("campaigns") :
           LET m == deleteTarget(mem, id)
               d == DatabaseStorage_delete(db, "targets", id)
               listed == listCampaignResults(m.store, c)
               selected == DatabaseStorage_listCampaignResults(d.store, c)
           IN  { listed[i] : i \in DOMAIN listed } = { selected[i] : i \in DOMAIN selected }

ErrorRowsOf(body, data) ==
    LET errors == ErrorsOf(body)
        failing == { j \in 1..Len(data) : ~RowComplete(data[j]) }
    IN  /\ \A e \in DOMAIN errors :
              /\ errors[e].row - 2 \in 0..(Len(data) - 1)
              /\ errors[e].row - 1 \in failing
        /\ \A e, f \in DOMAIN errors : e < f => errors[e].row < errors[f].row
        /\ \A j \in failing :
              Cardinality({ e \in DOMAIN errors : errors[e].row = (j - 1) + 2 }) = 1
        /\ body.imported = Len(data) - Cardinality(failing)

\* C21: every error entry an import reports carries row = (0-based index of
\* the failing data row) + 2; the entries are in increasing row order, each
\* failing row appears exactly once and no imported row appears.  This holds
\* of the import served in one piece, and of the import whose awaits let a
\* DELETE of a group run in between.
ImportErrorRows ==
    "POST_groups_id_import" \in DOMAIN running =>
        LET req == running.POST_groups_id_import
            alone == POST_groups_id_import(mem, now, req.u, req.groupId, req.file)
        IN  /\ alone.resp.status = 200 =>
                  ErrorRowsOf(alone.resp.body, req.file.data)
            /\ (req.pc = "done" /\ req.resp.status = 200) =>
                  ErrorRowsOf(req.resp.body, req.file.data)

\* an import of two rows is answered with one error entry, for the second
\* row, under row 3; another one with the entries 2 and 3
ImportErrorRowsSeen ==
    /\ "POST_groups_id_import" \in DOMAIN running
    /\ LET req == running.POST_groups_id_import
       IN  /\ req.pc = "done"
           /\ req.resp.status = 200
           /\ Len(req.file.data) = 2
           /\ req.resp.body.imported = 1
           /\ [e \in DOMAIN ErrorsOf(req.resp.body) |-> ErrorsOf(req.resp.body)[e].row]
                  = <<3>>
           /\ \E file \in Files :
                 LET resp == POST_groups_id_import(mem, now, req.u, req.groupId,
                                                   file).resp
                 IN  /\ resp.status = 200
                     /\ [e \in DOMAIN ErrorsOf(resp.body) |->
                            ErrorsOf(resp.body)[e].row] = <<2, 3>>

UpdateMissingIsNoOp ==
    \A id \in 0..mem.currentId, data \in Renames \cup { [status |-> "Active"] } :
        LET none == [store |-> mem, ret |-> Undefined]
        IN  /\ id \notin DOMAIN mem.users => updateUser(mem, id, data, now) = none
            /\ id \notin DOMAIN mem.groups => updateGroup(mem, id, data, now) = none
            /\ id \notin DOMAIN mem.targets => updateTarget(mem, id, data, now) = none
            /\ id \notin DOMAIN mem.smtpProfiles =>
                   updateSmtpProfile(mem, id, data, now) = none
            /\ id \notin DOMAIN mem.emailTemplates =>
                   updateEmailTemplate(mem, id, data, now) = none
            /\ id \notin DOMAIN mem.landingPages =>
                   updateLandingPage(mem, id, data, now) = none
            /\ id \notin DOMAIN mem.campaigns =>
                   updateCampaign(mem, id, data, now) = none
            /\ id \notin DOMAIN mem.campaignResults =>
                   updateCampaignResult(mem, id, data, now) = none

\* an update was called with an id its Map does not hold, on a store that
\* holds rows of every entity type: the store is as it was
UpdateMissingIsNoOpSeen ==
    /\ made > 0
    /\ mem = Stocked

\* the Maps of the store, by the name of their field
Maps == (DOMAIN Constructed) \ {"currentId"}

\* the keys of all Maps of the store s
AllKeys(s) == UNION { DOMAIN s[m] : m \in Maps }

\* what C25 says of a create that yields r on the store s, where assigned
\* are the ids handed out before: the new id is greater than each of them,
\* it is the key of the new row in one Map, and every row the store held is
\* as it was
Fresh(s, assigned, r) ==
    /\ r.ret.id \notin assigned \cup AllKeys(s)
    /\ \A k \in assigned \cup AllKeys(s) : k < r.ret.id
    /\ \E m \in Maps :
          /\ r.store[m] = Put(s[m], r.ret.id, r.ret)
          /\ \A n \in Maps \ {m} : r.store[n] = s[n]

\* the nine creates called on the store s at the time t
Creates(s, t) ==
    LET campaign == [name |-> "n1", targetGroupId |-> NoSuchId,
                     smtpProfileId |-> NoSuchId, emailTemplateId |-> NoSuchId,
                     landingPageId |-> NoSuchId]
    IN  { createOrganization(s, [name |-> "org3"], t),
          createUser(s, [email |-> <<"c", "@", "z">>, organizationId |-> NoSuchId], t),
          createGroup(s, NoSuchId, [name |-> "n1"], t),
          createTarget(s, NoSuchId, NoSuchId,
                       [firstName |-> "A", lastName |-> "X", email |-> "a@x"], t),
          createSmtpProfile(s, NoSuchId, [name |-> "n1"], t),
          createEmailTemplate(s, NoSuchId, NoSuchId, [name |-> "n1"], t),
          createLandingPage(s, NoSuchId, NoSuchId, [name |-> "n1"], t),
          createCampaign(s, NoSuchId, NoSuchId, campaign, t),
          createCampaignResult(s, NoSuchId,
                               [campaignId |-> NoSuchId, targetId |-> NoSuchId], t) }

\* C25: every create of the in-memory store assigns an id that no create of
\* any entity type has assigned before: in every state, each of the nine
\* creates takes an id greater than every id handed out so far, deleted
\* rows' ids included, and leaves the rows of the store as they are; and
\* from one state to the next the ids handed out only grow, and a key that
\* is new in a Map is greater than every id handed out before the step.
FreshIds ==
    /\ [](\A r \in Creates(mem, now) : Fresh(mem, DOMAIN origin, r))
    /\ [](AllKeys(mem) \subseteq DOMAIN origin)
    /\ [][ /\ DOMAIN origin \subseteq DOMAIN origin'
           /\ \A k \in AllKeys(mem') \ AllKeys(mem) :
                 \A j \in DOMAIN origin : j < k ]_vars

\* a row was deleted and a row created: the new row's id is above the ids
\* of the stocked store, and the deleted row's id is in no Map
FreshIdsSeen ==
    /\ made > 0
    /\ \E k \in AllKeys(Stocked) : k \notin AllKeys(mem)
    /\ \E k \in AllKeys(mem) : \A j \in AllKeys(Stocked) : j < k

\* C26, as stated: in every state of the in-memory store reached by creates
\* and deletes, every campaign result refers to a campaign and to a target
\* that are in the store.
ResultsReferToExisting ==
    \A x \in DOMAIN mem.campaignResults :
        /\ mem.campaignResults[x].campaignId \in DOMAIN mem.campaigns
        /\ mem.campaignResults[x].targetId \in DOMAIN mem.targets

\* C27, as stated: every row of every Map is stored under the key equal to
\* its own id, so get(k) returns undefined or a row whose id is k, also
\* after an update with a partial that carries an id.
KeyIsId ==
    \A m \in Maps : \A k \in DOMAIN mem[m] : mem[m][k].id = k

\* the store s2 is the store s but for the fields named of the row k of the
\* Map m
ChangesOnly(s, s2, m, k, fields) ==
    /\ \A n \in (DOMAIN s) \ {m} : s2[n] = s[n]
    /\ DOMAIN s2[m] = DOMAIN s[m]
    /\ \A j \in DOMAIN s[m] :
          /\ DOMAIN s2[m][j] = DOMAIN s[m][j]
          /\ \A f \in DOMAIN s[m][j] :
                (j # k \/ f \notin fields) => s2[m][j][f] = s[m][j][f]

\* C28: PUT /api/groups/:id changes at most name, description and updatedAt
\* of the group of the path, and PUT /api/email-templates/:id at most the
\* fields of the insert schema (of which the rows here carry name and
\* textContent) and updatedAt of the template of the path: id,
\* organizationId, createdAt and createdById stay whatever the body holds,
\* and every other row of the store stays as it is.
PutChangesSchemaFieldsOnly ==
    \A u \in DOMAIN mem.users, body \in PutBodies :
        /\ \A id \in IdsOf(mem.groups) :
              ChangesOnly(mem, PUT_groups_id(mem, now, u, id, body).store,
                          "groups", id, {"name", "description", "updatedAt"})
        /\ \A id \in IdsOf(mem.emailTemplates) :
              ChangesOnly(mem, PUT_email_templates_id(mem, now, u, id, body).store,
                          "emailTemplates", id, {"name", "textContent", "updatedAt"})

\* a group and an email template have been put with the body that carries
\* id, organizationId, createdById and createdAt: each has the body's name,
\* and its own id, organizationId, createdById and createdAt
PutChangesSchemaFieldsOnlySeen ==
    /\ \E g \in DOMAIN mem.groups :
          /\ mem.groups[g].name = "n3"
          /\ mem.groups[g].updatedAt = now
          /\ [mem.groups[g] EXCEPT !.name = "n1", !.description = Null,
                                   !.updatedAt = 0] = Stocked.groups[g]
    /\ \E e \in DOMAIN mem.emailTemplates :
          /\ mem.emailTemplates[e].name = "n3"
          /\ mem.emailTemplates[e].textContent = "t"
          /\ [mem.emailTemplates[e] EXCEPT !.name = "n1", !.textContent = Null,
                                           !.updatedAt = 0] = Stocked.emailTemplates[e]

\* C29: served by the routes alone, every stored campaign has status Draft,
\* one of Draft, Scheduled, Active and Completed, and GET
\* /api/dashboard/stats answers every session with activeCampaigns 0.
CampaignsStayDraft ==
    /\ \A c \in DOMAIN mem.campaigns :
          /\ mem.campaigns[c].status = "Draft"
          /\ mem.campaigns[c].status \in {"Draft", "Scheduled", "Active", "Completed"}
    /\ \A u \in DOMAIN mem.users :
          LET h == GET_dashboard_stats(mem, now, u)
          IN  /\ h.resp.status = 200
              /\ h.resp.body.activeCampaigns = 0

\* a session whose organization has a campaign a route created is served
\* its dashboard
CampaignsStayDraftSeen ==
    /\ made > 0
    /\ \E u \in DOMAIN mem.users, c \in DOMAIN mem.campaigns :
          /\ mem.campaigns[c].organizationId = mem.users[u].organizationId
          /\ mem.campaigns[c].createdById = mem.users[u].id
          /\ GET_dashboard_stats(mem, now, u).resp.body.activeCampaigns = 0

\* the stores s and s2 differ only in groups, targets and email templates of
\* the organization organizationId
DifferOnlyIn(s, s2, organizationId) ==
    /\ \A m \in (DOMAIN s) \ {"groups", "targets", "emailTemplates"} : s[m] = s2[m]
    /\ \A m \in {"groups", "targets", "emailTemplates"} :
          \A k \in (DOMAIN s[m]) \cup (DOMAIN s2[m]) :
              \/ k \in DOMAIN s[m] /\ k \in DOMAIN s2[m] /\ s[m][k] = s2[m][k]
              \/ \A x \in {s, s2} :
                     k \in DOMAIN x[m] => x[m][k].organizationId = organizationId

\* the stores that are the store s without one group and its targets, or
\* without one email template
Without(s) ==
    { deleteGroup(s, g).store : g \in DOMAIN s.groups }
        \cup { deleteEmailTemplate(s, e).store : e \in DOMAIN s.emailTemplates }

\* C30, as stated: on two stores that differ only in entities of another
\* organization than the session's, a request of the session to PUT or DELETE
\* /api/groups/:id, GET or POST /api/groups/:id/targets, POST
\* /api/groups/:id/import or PUT /api/email-templates/:id for an id the
\* session's organization does not own is answered with the same status code.
StatusBlindToOthers ==
    \A u \in DOMAIN mem.users, s2 \in Without(mem) :
        (\E o \in DOMAIN mem.organizations :
             o # mem.users[u].organizationId /\ DifferOnlyIn(mem, s2, o)) =>
            /\ \A g \in IdsOf(mem.groups) :
                  ~OwnGroup(u, g) =>
                      /\ \A body \in GroupBodies :
                            PUT_groups_id(mem, now, u, g, body).resp.status
                                = PUT_groups_id(s2, now, u, g, body).resp.status
                      /\ DELETE_groups_id(mem, now, u, g).resp.status
                            = DELETE_groups_id(s2, now, u, g).resp.status
                      /\ GET_groups_id_targets(mem, now, u, g).resp.status
                            = GET_groups_id_targets(s2, now, u, g).resp.status
                      /\ \A body \in TargetBodies :
                            POST_groups_id_targets(mem, now, u, g, body).resp.status
                                = POST_groups_id_targets(s2, now, u, g, body).resp.status
                      /\ \A file \in Files :
                            POST_groups_id_import(mem, now, u, g, file).resp.status
                                = POST_groups_id_import(s2, now, u, g, file).resp.status
            /\ \A e \in IdsOf(mem.emailTemplates) :
                  ~OwnTemplate(u, e) =>
                      \A body \in NamedBodies :
                          PUT_email_templates_id(mem, now, u, e, body).resp.status
                              = PUT_email_templates_id(s2, now, u, e, body).resp.status

====
